---- MODULE Spec2Model ----
(***************************************************************************)
(* Behavioural analytics engine of the todo-list application:              *)
(*   TimeUtils          (todo-app/js/timeUtils.js)                         *)
(*   MetricsCalculator  (todo-app/js/metricsCalculator.js)                 *)
(*   AnalyticsEngine    (unnamed/part_000, lines 862-1559)                 *)
(*                                                                         *)
(* Representation.  A JavaScript Date / Date.now() reading is a count of   *)
(* milliseconds; the counts the calendar needs do not fit the integers of  *)
(* the model checker, so an instant is the pair [day, ms]: day is the      *)
(* number of whole days since 2024-01-01T00:00:00.000 and ms the           *)
(* millisecond within that day.  Local time is taken to be a zone without  *)
(* daylight saving, so every calendar day has MsPerDay milliseconds.       *)
(* A JavaScript string is a sequence of one-character strings.             *)
(***************************************************************************)
EXTENDS Integers, Sequences, FiniteSets, TLC

(***************************************************************************)
(* Instants                                                                *)
(***************************************************************************)
MsPerDay == 1000 * 3600 * 24

T(d, m) == [day |-> d, ms |-> m]

Before(a, b) == a.day < b.day \/ (a.day = b.day /\ a.ms < b.ms)

AtOrBefore(a, b) == a = b \/ Before(a, b)

AddMs(t, k) == T(t.day + ((t.ms + k) \div MsPerDay), (t.ms + k) % MsPerDay)

(***************************************************************************)
(* Calendar: the local-time fields of a Date and the normalisation done by *)
(* setDate / setHours.                                                     *)
(***************************************************************************)
\* Day 0 of the model is 1 January of this year
EpochYear == 2000 + 24

IsLeapYear(y) == (y % 4 = 0 /\ y % 100 # 0) \/ y % 400 = 0

DaysInYear(y) == IF IsLeapYear(y) THEN 366 ELSE 365

DaysInMonth(y, m) ==
    CASE m = 1 -> IF IsLeapYear(y) THEN 29 ELSE 28
      [] m \in {3, 5, 8, 10} -> 30
      [] OTHER -> 31

RECURSIVE DayFromYear(_)
DayFromYear(y) == IF y <= EpochYear THEN 0 ELSE DayFromYear(y - 1) + DaysInYear(y - 1)

RECURSIVE DaysBeforeMonth(_, _)
DaysBeforeMonth(y, m) == IF m = 0 THEN 0 ELSE DaysBeforeMonth(y, m - 1) + DaysInMonth(y, m - 1)

RECURSIVE YearFromDay(_, _)
YearFromDay(d, y) == IF d < DayFromYear(y + 1) THEN y ELSE YearFromDay(d, y + 1)

RECURSIVE MonthFromDay(_, _, _)
MonthFromDay(dayInYear, y, m) ==
    IF dayInYear < DaysBeforeMonth(y, m + 1) THEN m ELSE MonthFromDay(dayInYear, y, m + 1)

getFullYear(t) == YearFromDay(t.day, EpochYear)

getMonth(t) == MonthFromDay(t.day - DayFromYear(getFullYear(t)), getFullYear(t), 0)

getDate(t) == t.day - DayFromYear(getFullYear(t)) - DaysBeforeMonth(getFullYear(t), getMonth(t)) + 1

getHours(t) == t.ms \div 3600000

getMinutes(t) == (t.ms \div 60000) % 60

getSeconds(t) == (t.ms \div 1000) % 60

getMilliseconds(t) == t.ms % 1000

\* MakeDay of ECMAScript: a month outside 0..11 carries into the year, and a
\* day of month outside the month carries into the neighbouring months.
\* (Defined for the years from EpochYear on.)
MakeDay(y, m, dt) ==
    LET ym == y + (m \div 12)
        mn == m % 12
    IN  DayFromYear(ym) + DaysBeforeMonth(ym, mn) + dt - 1

setDate(t, dt) == T(MakeDay(getFullYear(t), getMonth(t), dt), t.ms)

setHours(t, h, mi, s, ms) == T(t.day, ((h * 60 + mi) * 60 + s) * 1000 + ms)

getStartOfDay(date) == setHours(date, 0, 0, 0, 0)

getEndOfDayNoMillis(date) == setHours(date, 23, 59, 59, 0)

getEndOfDay(date) == setHours(date, 23, 59, 59, 999)

\* Date.prototype.setMonth keeps the day of the month: a day the target month
\* does not have carries into the month after it.
setMonth(t, m) == T(MakeDay(getFullYear(t), m, getDate(t)), t.ms)

getStartOfMonth(date) == setHours(setDate(date, 1), 0, 0, 0, 0)

getEndOfMonth(date) ==
    setHours(setDate(setMonth(date, getMonth(date) + 1), 0), 23, 59, 59, 999)

thisMonthRange(now) == [start |-> getStartOfMonth(now), end |-> getEndOfMonth(now)]

\* ceil(|d2 - d1| / MsPerDay)
getDaysDifference(date1, date2) ==
    LET lo == IF Before(date2, date1) THEN date2 ELSE date1
        hi == IF Before(date2, date1) THEN date1 ELSE date2
    IN  (hi.day - lo.day) + (IF hi.ms > lo.ms THEN 1 ELSE 0)

(***************************************************************************)
(* Strings and number formatting                                           *)
(***************************************************************************)
Digit(n) == <<"0", "1", "2", "3", "4", "5", "6", "7", "8", "9">>[n + 1]

RECURSIVE NumberToString(_)
NumberToString(n) == IF n < 10 THEN <<Digit(n)>> ELSE NumberToString(n \div 10) \o <<Digit(n % 10)>>

RECURSIVE padStart(_, _)
padStart(s, w) == IF Len(s) >= w THEN s ELSE padStart(<<"0">> \o s, w)

Pad(n, w) == padStart(NumberToString(n), w)

slice(s, from, to) == SubSeq(s, from + 1, IF Len(s) < to THEN Len(s) ELSE to)

\* Date.prototype.toISOString: YYYY-MM-DDTHH:mm:ss.sssZ
toISOString(t) ==
    Pad(getFullYear(t), 4) \o <<"-">> \o Pad(getMonth(t) + 1, 2) \o <<"-">> \o Pad(getDate(t), 2)
    \o <<"T">> \o Pad(getHours(t), 2) \o <<":">> \o Pad(getMinutes(t), 2)
    \o <<":">> \o Pad(getSeconds(t), 2) \o <<".">> \o Pad(getMilliseconds(t), 3) \o <<"Z">>

\* TimeUtils.formatDate with the formats the engine uses
formatDate(t, format) ==
    CASE format = "YYYY-MM-DD" ->
           Pad(getFullYear(t), 4) \o <<"-">> \o Pad(getMonth(t) + 1, 2) \o <<"-">> \o Pad(getDate(t), 2)
      [] OTHER -> toISOString(t)

(***************************************************************************)
(* Task records, options and their JSON text                               *)
(*                                                                         *)
(* A record is {id, title, description, completed, createTime} and, once   *)
(* toggled, updateTime (main.js 165-171, 222).  createTime and updateTime  *)
(* are ISO strings in the program; the model keeps the instant they parse  *)
(* to and writes the ISO text where the program uses the string.           *)
(***************************************************************************)
Todo(id, title, description, completed, createTime, hasUpdateTime, updateTime) ==
    [id |-> id, title |-> title, description |-> description, completed |-> completed,
     createTime |-> createTime, hasUpdateTime |-> hasUpdateTime, updateTime |-> updateTime]

\* An options object: the keys the caller wrote, in insertion order, and
\* their values (a value is read only when its key is present).
Options(keys, includePeriods, periodCount, includeInsights, includeRecommendations) ==
    [keys |-> keys, includePeriods |-> includePeriods, periodCount |-> periodCount,
     includeInsights |-> includeInsights, includeRecommendations |-> includeRecommendations]

Has(options, k) == \E i \in 1..Len(options.keys) : options.keys[i] = k

Quote == "\""

JsonString(s) == <<Quote>> \o s \o <<Quote>>

JsonBoolean(b) == IF b THEN <<"t", "r", "u", "e">> ELSE <<"f", "a", "l", "s", "e">>

JsonKey(s) == JsonString(s) \o <<":">>

RECURSIVE JsonJoin(_)
JsonJoin(parts) ==
    IF Len(parts) = 0 THEN <<>>
    ELSE IF Len(parts) = 1 THEN parts[1]
    ELSE parts[1] \o <<",">> \o JsonJoin(Tail(parts))

JsonTodo(t) ==
    <<"{">> \o JsonKey(<<"i", "d">>) \o JsonString(t.id)
    \o <<",">> \o JsonKey(<<"t", "i", "t", "l", "e">>) \o JsonString(t.title)
    \o <<",">> \o JsonKey(<<"d", "e", "s", "c", "r", "i", "p", "t", "i", "o", "n">>) \o JsonString(t.description)
    \o <<",">> \o JsonKey(<<"c", "o", "m", "p", "l", "e", "t", "e", "d">>) \o JsonBoolean(t.completed)
    \o <<",">> \o JsonKey(<<"c", "r", "e", "a", "t", "e", "T", "i", "m", "e">>) \o JsonString(toISOString(t.createTime))
    \o (IF t.hasUpdateTime
        THEN <<",">> \o JsonKey(<<"u", "p", "d", "a", "t", "e", "T", "i", "m", "e">>) \o JsonString(toISOString(t.updateTime))
        ELSE <<>>)
    \o <<"}">>

JsonTodos(todos) == <<"[">> \o JsonJoin([i \in 1..Len(todos) |-> JsonTodo(todos[i])]) \o <<"]">>

JsonStringArray(a) == <<"[">> \o JsonJoin([i \in 1..Len(a) |-> JsonString(a[i])]) \o <<"]">>

JsonOption(options, k) ==
    CASE k = "includePeriods" ->
           JsonKey(<<"i", "n", "c", "l", "u", "d", "e", "P", "e", "r", "i", "o", "d", "s">>)
           \o JsonStringArray(options.includePeriods)
      [] k = "periodCount" ->
           JsonKey(<<"p", "e", "r", "i", "o", "d", "C", "o", "u", "n", "t">>)
           \o NumberToString(options.periodCount)
      [] k = "includeInsights" ->
           JsonKey(<<"i", "n", "c", "l", "u", "d", "e", "I", "n", "s", "i", "g", "h", "t", "s">>)
           \o JsonBoolean(options.includeInsights)
      [] OTHER ->
           JsonKey(<<"i", "n", "c", "l", "u", "d", "e", "R", "e", "c", "o", "m", "m", "e", "n", "d", "a", "t", "i", "o", "n", "s">>)
           \o JsonBoolean(options.includeRecommendations)

JsonOptions(options) ==
    <<"{">> \o JsonJoin([i \in 1..Len(options.keys) |-> JsonOption(options, options.keys[i])]) \o <<"}">>

\* JSON.stringify({ todos, options })
JsonReportData(todos, options) ==
    <<"{">> \o JsonKey(<<"t", "o", "d", "o", "s">>) \o JsonTodos(todos)
    \o <<",">> \o JsonKey(<<"o", "p", "t", "i", "o", "n", "s">>) \o JsonOptions(options) \o <<"}">>

\* JSON.stringify({ todosLength, startDate, endDate }); a Date is written as
\* its toISOString text.
JsonPeriodData(todosLength, startDate, endDate) ==
    <<"{">> \o JsonKey(<<"t", "o", "d", "o", "s", "L", "e", "n", "g", "t", "h">>) \o NumberToString(todosLength)
    \o <<",">> \o JsonKey(<<"s", "t", "a", "r", "t", "D", "a", "t", "e">>) \o JsonString(toISOString(startDate))
    \o <<",">> \o JsonKey(<<"e", "n", "d", "D", "a", "t", "e">>) \o JsonString(toISOString(endDate)) \o <<"}">>

(***************************************************************************)
(* JavaScript numbers that may be NaN or null                              *)
(***************************************************************************)
Number(v) == [kind |-> "number", v |-> v]

NaN == [kind |-> "NaN", v |-> 0]

Infinity == [kind |-> "Infinity", v |-> 0]

Null == [kind |-> "null", v |-> 0]

\* Math.round(a / b * scale) for integers a >= 0, b >= 0: x / 0 is NaN for
\* x = 0 and Infinity otherwise, and Math.round keeps both; halves round up.
\* (On the small counts of the model the floating-point quotient rounds as
\* the exact one does.)
RoundedRatio(a, b, scale) ==
    IF b = 0 THEN (IF a = 0 THEN NaN ELSE Infinity)
    ELSE Number((2 * a * scale + b) \div (2 * b))

\* x > limit in JavaScript: false whenever x is NaN
GreaterThan(x, limit) ==
    CASE x.kind = "number" -> x.v > limit
      [] x.kind = "Infinity" -> TRUE
      [] OTHER -> FALSE

(***************************************************************************)
(* MetricsCalculator                                                       *)
(***************************************************************************)
\* A time range argument: present or null
Range(start, end) == [present |-> TRUE, start |-> start, end |-> end]

NoRange == [present |-> FALSE, start |-> T(0, 0), end |-> T(0, 0)]

InRangeOpenEnd(todo, timeRange) ==
    AtOrBefore(timeRange.start, todo.createTime) /\ Before(todo.createTime, timeRange.end)

\* createTime >= timeRange.start && createTime <= timeRange.end
InRange(todo, timeRange) ==
    AtOrBefore(timeRange.start, todo.createTime) /\ AtOrBefore(todo.createTime, timeRange.end)

calculateCompletionRate(todos, timeRange) ==
    LET InR(todo) == InRange(todo, timeRange)
        IsCompleted(todo) == todo.completed
        filteredTodos == IF timeRange.present THEN SelectSeq(todos, InR) ELSE todos
        total == Len(filteredTodos)
        completed == Len(SelectSeq(filteredTodos, IsCompleted))
        pending == total - completed
    IN  IF total = 0
        THEN [total |-> 0, completed |-> 0, pending |-> 0, completionRate |-> 0, pendingRate |-> 0]
        ELSE [total |-> total, completed |-> completed, pending |-> pending,
              completionRate |-> RoundedRatio(completed, total, 100).v,
              pendingRate |-> RoundedRatio(pending, total, 100).v]

\* One bucket of calculateTimePeriodStats for period 'day': the i-th day
\* before now.  formatDate has no 'MM/DD' case, so the label is the default
\* (ISO) text of the bucket's start.
DayPeriod(todos, now, i) ==
    LET periodStart == getStartOfDay(setDate(now, getDate(now) - i))
        periodEnd == getEndOfDay(periodStart)
        periodStats == calculateCompletionRate(todos, Range(periodStart, periodEnd))
    IN  [label |-> formatDate(periodStart, "MM/DD"), period |-> "day",
         startDate |-> periodStart, endDate |-> periodEnd,
         total |-> periodStats.total, completed |-> periodStats.completed,
         pending |-> periodStats.pending, completionRate |-> periodStats.completionRate,
         pendingRate |-> periodStats.pendingRate]

\* One bucket for period 'month': the month setMonth(now.getMonth() - i)
\* lands in.  formatDate has no 'YYYY-MM' case either.
MonthPeriod(todos, now, i) ==
    LET periodStart == getStartOfMonth(setMonth(now, getMonth(now) - i))
        periodEnd == getEndOfMonth(periodStart)
        periodStats == calculateCompletionRate(todos, Range(periodStart, periodEnd))
    IN  [label |-> formatDate(periodStart, "YYYY-MM"), period |-> "month",
         startDate |-> periodStart, endDate |-> periodEnd,
         total |-> periodStats.total, completed |-> periodStats.completed,
         pending |-> periodStats.pending, completionRate |-> periodStats.completionRate,
         pendingRate |-> periodStats.pendingRate]

\* The loop pushes each bucket at the front (unshift): the bucket of i = 0,
\* the current one, ends up last.  (Periods 'day' and 'month'.)
calculateTimePeriodStats(todos, now, period, periodCount) ==
    [j \in 1..periodCount |->
        IF period = "month" THEN MonthPeriod(todos, now, periodCount - j)
        ELSE DayPeriod(todos, now, periodCount - j)]

RECURSIVE SumOver(_, _, _)
SumOver(f, lo, hi) == IF lo > hi THEN 0 ELSE f[lo] + SumOver(f, lo + 1, hi)

Abs(n) == IF n < 0 THEN 0 - n ELSE n

\* The slope of the linear regression of stat.completed against the index
\* 0..n-1, as the fraction num / den the program divides (den > 0 for n >= 2)
RegressionSlope(dailyStats) ==
    LET n == Len(dailyStats)
        sumX == SumOver([j \in 1..n |-> j - 1], 1, n)
        sumY == SumOver([j \in 1..n |-> dailyStats[j].completed], 1, n)
        sumXY == SumOver([j \in 1..n |-> (j - 1) * dailyStats[j].completed], 1, n)
        sumX2 == SumOver([j \in 1..n |-> (j - 1) * (j - 1)], 1, n)
    IN  [num |-> n * sumXY - sumX * sumY, den |-> n * sumX2 - sumX * sumX]

TrendOfThresholdOne(slope) ==
    IF Abs(slope.num) < slope.den THEN "stable"
    ELSE IF slope.num > 0 THEN "increasing"
    ELSE "decreasing"

\* Math.abs(slope) < 0.1, then slope > 0
TrendOf(slope) ==
    IF 10 * Abs(slope.num) < slope.den THEN "stable"
    ELSE IF slope.num > 0 THEN "increasing"
    ELSE "decreasing"

\* change is the slope as a fraction; dailyAverage is kept in tenths
\* (Math.round(dailyAverage * 10) / 10).
calculateProductivityTrend(todos, now, days) ==
    LET dailyStats == calculateTimePeriodStats(todos, now, "day", days)
        n == Len(dailyStats)
        slope == RegressionSlope(dailyStats)
        sumY == SumOver([j \in 1..n |-> dailyStats[j].completed], 1, n)
    IN  IF Len(dailyStats) < 2
        THEN [trend |-> "stable", change |-> [num |-> 0, den |-> 1], dailyAverage |-> 0,
              periods |-> <<>>]
        ELSE [trend |-> TrendOf(slope), change |-> slope,
              dailyAverage |-> RoundedRatio(sumY, n, 10).v, periods |-> dailyStats]

Min(a, b) == IF a < b THEN a ELSE b

ProcrastinationScoreMinus(metrics) ==
    LET t == IF metrics.totalTasks > 0 THEN metrics.totalTasks ELSE 1
        d == IF metrics.delayedTasks > 0 THEN metrics.delayedTasks ELSE 1
        delayed == IF metrics.totalTasks > 0
                   THEN Min(30 * metrics.delayedTasks, 30 * t) * 5 * d ELSE 0
        longTerm == IF metrics.delayedTasks > 0
                    THEN Min(25 * metrics.longTermDelayed, 25 * d) * 5 * t ELSE 0
        veryLongTerm == IF metrics.delayedTasks > 0
                        THEN Min(25 * metrics.veryLongTermDelayed, 25 * d) * 5 * t ELSE 0
        completion == IF metrics.avgCompletionDays > 70
                      THEN Min(metrics.avgCompletionDays - 70, 20 * 5) * t * d ELSE 0
    IN  [delayed |-> delayed, longTerm |-> longTerm, veryLongTerm |-> veryLongTerm,
         completion |-> completion,
         num |-> delayed + longTerm + veryLongTerm - completion, den |-> 5 * t * d]

\* The four parts of the score of calculateProcrastinationLevel and their
\* sum, each as the numerator of a fraction over den = 5 * totalTasks *
\* delayedTasks (a count of 0 taken as 1 in den; its part is then skipped).
\* avgCompletionDays is in tenths of a day, so (avg - 7) * 2 is
\* (avgCompletionDays - 70) / 5.
ProcrastinationScore(metrics) ==
    LET t == IF metrics.totalTasks > 0 THEN metrics.totalTasks ELSE 1
        d == IF metrics.delayedTasks > 0 THEN metrics.delayedTasks ELSE 1
        delayed == IF metrics.totalTasks > 0
                   THEN Min(30 * metrics.delayedTasks, 30 * t) * 5 * d ELSE 0
        longTerm == IF metrics.delayedTasks > 0
                    THEN Min(25 * metrics.longTermDelayed, 25 * d) * 5 * t ELSE 0
        veryLongTerm == IF metrics.delayedTasks > 0
                        THEN Min(25 * metrics.veryLongTermDelayed, 25 * d) * 5 * t ELSE 0
        completion == IF metrics.avgCompletionDays > 70
                      THEN Min(metrics.avgCompletionDays - 70, 20 * 5) * t * d ELSE 0
    IN  [delayed |-> delayed, longTerm |-> longTerm, veryLongTerm |-> veryLongTerm,
         completion |-> completion,
         num |-> delayed + longTerm + veryLongTerm + completion, den |-> 5 * t * d]

LevelOfHighFrom50(score) ==
    IF score.num < 20 * score.den THEN "low"
    ELSE IF score.num < 50 * score.den THEN "moderate"
    ELSE IF score.num < 70 * score.den THEN "high"
    ELSE "very_high"

LevelOf(score) ==
    IF score.num < 20 * score.den THEN "low"
    ELSE IF score.num < 40 * score.den THEN "moderate"
    ELSE IF score.num < 70 * score.den THEN "high"
    ELSE "very_high"

calculateProcrastinationLevel(metrics) == LevelOf(ProcrastinationScore(metrics))

DelayDaysOverInclusive(todo, now, days) == getDaysDifference(todo.createTime, now) >= days

\* delayDays > days
DelayDaysOver(todo, now, days) == getDaysDifference(todo.createTime, now) > days

PendingTasksAll(todos) == todos

\* todos.filter(todo => !todo.completed)
PendingTasks(todos) ==
    LET IsPending(todo) == ~todo.completed
    IN  SelectSeq(todos, IsPending)

\* avgDelayDays and avgCompletionDays are kept in tenths of a day
calculateProcrastinationMetrics(todos, now) ==
    LET IsDelayed(todo) == DelayDaysOver(todo, now, 1)
        IsLongTerm(todo) == DelayDaysOver(todo, now, 7)
        IsVeryLongTerm(todo) == DelayDaysOver(todo, now, 30)
        IsCompletedTask(todo) == todo.completed /\ todo.hasUpdateTime
        pendingTasks == PendingTasks(todos)
        delayed == SelectSeq(pendingTasks, IsDelayed)
        delayedTasks == Len(delayed)
        totalDelayDays ==
            SumOver([i \in 1..delayedTasks |-> getDaysDifference(delayed[i].createTime, now)],
                    1, delayedTasks)
        longTermDelayed == Len(SelectSeq(delayed, IsLongTerm))
        veryLongTermDelayed == Len(SelectSeq(delayed, IsVeryLongTerm))
        completedTasks == SelectSeq(todos, IsCompletedTask)
        totalCompletionTime ==
            SumOver([i \in 1..Len(completedTasks) |->
                        getDaysDifference(completedTasks[i].createTime,
                                          completedTasks[i].updateTime)],
                    1, Len(completedTasks))
        avgCompletionDays ==
            IF Len(completedTasks) > 0
            THEN RoundedRatio(totalCompletionTime, Len(completedTasks), 10).v ELSE 0
    IN  [totalPendingTasks |-> Len(pendingTasks),
         delayedTasks |-> delayedTasks,
         longTermDelayed |-> longTermDelayed,
         veryLongTermDelayed |-> veryLongTermDelayed,
         avgDelayDays |-> IF delayedTasks > 0
                          THEN RoundedRatio(totalDelayDays, delayedTasks, 10).v ELSE 0,
         avgCompletionDays |-> avgCompletionDays,
         procrastinationLevel |->
             calculateProcrastinationLevel(
                 [totalTasks |-> Len(todos), delayedTasks |-> delayedTasks,
                  longTermDelayed |-> longTermDelayed,
                  veryLongTermDelayed |-> veryLongTermDelayed,
                  avgCompletionDays |-> avgCompletionDays])]

\* Array.prototype.sort with (a, b) => new Date(b.updateTime) - new
\* Date(a.updateTime): latest updateTime first, equal ones in their order
RECURSIVE SortByUpdateTimeDescending(_)
SortByUpdateTimeDescending(s) ==
    IF Len(s) <= 1 THEN s
    ELSE LET first == CHOOSE i \in 1..Len(s) :
                         /\ \A j \in 1..Len(s) : AtOrBefore(s[j].updateTime, s[i].updateTime)
                         /\ \A j \in 1..(i - 1) : s[j].updateTime # s[i].updateTime
         IN  <<s[first]>> \o SortByUpdateTimeDescending(
                 SubSeq(s, 1, first - 1) \o SubSeq(s, first + 1, Len(s)))

\* The while loop of calculateStreaks: checkDate walks back a day at a time
\* while it is not before the start of the day of completedTodos[0].
RECURSIVE StreakLoop(_, _, _, _)
StreakLoop(completedTodos, checkDate, currentStreak, streakDates) ==
    LET OnCheckDate(todo) == getStartOfDay(todo.updateTime) = checkDate
    IN  IF ~AtOrBefore(getStartOfDay(completedTodos[1].updateTime), checkDate)
        THEN [currentStreak |-> currentStreak, streakDates |-> streakDates]
        ELSE IF Len(SelectSeq(completedTodos, OnCheckDate)) > 0
        THEN StreakLoop(completedTodos, setDate(checkDate, getDate(checkDate) - 1),
                        currentStreak + 1, <<checkDate>> \o streakDates)
        ELSE [currentStreak |-> currentStreak, streakDates |-> streakDates]

calculateStreaks(todos, now) ==
    LET IsCompletedTask(todo) == todo.completed /\ todo.hasUpdateTime
        completedTodos == SortByUpdateTimeDescending(SelectSeq(todos, IsCompletedTask))
        loop == IF Len(completedTodos) > 0
                THEN StreakLoop(completedTodos, getStartOfDay(now), 0, <<>>)
                ELSE [currentStreak |-> 0, streakDates |-> <<>>]
    IN  [currentStreak |-> loop.currentStreak,
         maxStreak |-> loop.currentStreak,
         streakDates |-> [i \in 1..Len(loop.streakDates) |->
                             formatDate(loop.streakDates[i], "YYYY-MM-DD")]]

RECURSIVE trim(_)
trim(s) ==
    IF Len(s) = 0 THEN s
    ELSE IF Head(s) = " " THEN trim(Tail(s))
    ELSE IF s[Len(s)] = " " THEN trim(SubSeq(s, 1, Len(s) - 1))
    ELSE s

RECURSIVE Sum(_, _)
Sum(s, i) == IF i > Len(s) THEN 0 ELSE s[i] + Sum(s, i + 1)

Count(s, v) == Cardinality({i \in 1..Len(s) : s[i] = v})

\* The first value whose running count reaches the final maximum count
\* (frequency[value] > maxCount is strict, so later ties do not replace it).
findMostFrequentValue(array) ==
    IF Len(array) = 0 THEN Null
    ELSE LET maxCount == CHOOSE c \in 1..Len(array) :
                            /\ \E i \in 1..Len(array) : Count(array, array[i]) = c
                            /\ \A i \in 1..Len(array) : Count(array, array[i]) <= c
             Reached(i) == Count(SubSeq(array, 1, i), array[i]) = maxCount
             first == CHOOSE i \in 1..Len(array) :
                         Reached(i) /\ \A j \in 1..(i - 1) : ~Reached(j)
         IN  Number(array[first])

\* avgTitleLength is compared before rounding in the program; with integer
\* title lengths, avg > 30 iff the sum exceeds 30 times the count.
analyzeTaskPatterns(todos) ==
    LET HasDescription(todo) == Len(trim(todo.description)) > 0
        titleLengths == [i \in 1..Len(todos) |-> Len(todos[i].title)]
        avgTitleLength == RoundedRatio(Sum(titleLengths, 1), Len(titleLengths), 1)
        descriptionUsage == RoundedRatio(Len(SelectSeq(todos, HasDescription)), Len(todos), 100)
        creationHours == [i \in 1..Len(todos) |-> getHours(todos[i].createTime)]
    IN  [avgTitleLength |-> avgTitleLength,
         descriptionUsage |-> descriptionUsage,
         peakCreationHour |-> findMostFrequentValue(creationHours),
         taskComplexity |-> IF Len(todos) > 0 /\ Sum(titleLengths, 1) > 30 * Len(todos)
                            THEN "complex" ELSE "simple",
         planningHabit |-> IF GreaterThan(descriptionUsage, 50) THEN "detailed" ELSE "minimal"]

(***************************************************************************)
(* AnalyticsEngine: the cache                                              *)
(*                                                                         *)
(* cache and cacheExpiry are the two Maps of the engine, as functions on   *)
(* their key sets.  A key is the text `${prefix}_${data}_${now}`; prefix   *)
(* is one of two fixed words that differ in their first character and now  *)
(* is a run of digits, so two keys are equal exactly when their three      *)
(* parts are, and the key is kept as the record of its parts.              *)
(***************************************************************************)
cacheDuration == 5 * 60 * 1000

SliceLen == 50

MapSet(m, k, v) == [x \in (DOMAIN m) \cup {k} |-> IF x = k THEN v ELSE m[x]]

MapDelete(m, k) == [x \in (DOMAIN m) \ {k} |-> m[x]]

EmptyMap == [x \in {} |-> 0]

generateCacheKey(prefix, json, now) ==
    [prefix |-> prefix, data |-> slice(json, 0, SliceLen), now |-> now]

setCachedResultNoExpiry(c, e, key, data, now) ==
    [cache |-> MapSet(c, key, data), cacheExpiry |-> e]

setCachedResult(c, e, key, data, now) ==
    [cache |-> MapSet(c, key, data), cacheExpiry |-> MapSet(e, key, AddMs(now, cacheDuration))]

\* The result of a lookup: found tells whether a value is returned (null
\* otherwise), and cache / cacheExpiry are the maps after the lookup.  now
\* is read only when the key has an expiry.
getCachedResult(c, e, key, now) ==
    IF key \in DOMAIN e /\ Before(now, e[key])
    THEN [found |-> key \in DOMAIN c, cache |-> c, cacheExpiry |-> e]
    ELSE [found |-> FALSE, cache |-> MapDelete(c, key), cacheExpiry |-> MapDelete(e, key)]

clearCacheValuesOnly(c, e) == [cache |-> EmptyMap, cacheExpiry |-> e]

clearCacheMaps(c, e) == [cache |-> EmptyMap, cacheExpiry |-> EmptyMap]

(***************************************************************************)
(* Inputs of the model                                                     *)
(***************************************************************************)
\* 2024-03-01, the day the engine is constructed on
BaseDay == 31 + 29

\* The clock at construction: 23:55:00.000, one cache lifetime before midnight
StartClock == T(BaseDay, MsPerDay - cacheDuration)

\* Most results the engine of the model computes
MaxObjects == 2

\* The instants the clock of the model is read at: construction, 1 ms before
\* a cache lifetime has passed, and a cache lifetime later (midnight).
ClockValues == {AddMs(StartClock, d) : d \in {0, cacheDuration - 1, cacheDuration}}

\* The readings Date.now() / new Date() can give after a reading of t
Reads(t) == {u \in ClockValues : AtOrBefore(t, u)}

\* An id as addTodo makes it (13 digits of Date.now() and 9 random
\* characters), a second one, and the fixed id of main.js 839
GeneratedId == <<"1", "7", "0", "9", "2", "8", "7", "2", "0", "0", "0", "0", "0", "k", "3", "j", "9", "x", "2", "m", "z", "q">>

GeneratedId2 == <<"1", "7", "0", "9", "2", "8", "7", "2", "0", "0", "0", "0", "1", "p", "0", "w", "4", "c", "8", "n", "e", "u">>

TempId == <<"t", "e", "m", "p", "-", "i", "d">>

TodoA == Todo(GeneratedId, <<"a">>, <<>>, FALSE, T(BaseDay, 36000000), FALSE, T(0, 0))

TodoADone == Todo(GeneratedId, <<"a">>, <<>>, TRUE, T(BaseDay, 36000000), TRUE, T(BaseDay, 40000000))

TodoB == Todo(GeneratedId2, <<"b", "c">>, <<"d">>, FALSE, T(BaseDay + 1, 0), FALSE, T(0, 0))

TodoBDone == Todo(GeneratedId2, <<"b", "c">>, <<"d">>, TRUE, T(BaseDay + 1, 0), TRUE, T(BaseDay + 1, 1))

TodoC == Todo(TempId, <<"a">>, <<" ">>, FALSE, T(BaseDay, MsPerDay - 1), FALSE, T(0, 0))

\* The record collections callers pass
Collections ==
    << <<>>, <<TodoA>>, <<TodoADone>>, <<TodoC>>, <<TodoA, TodoB>>, <<TodoA, TodoBDone>> >>

OptionSets ==
    << Options(<<"periodCount">>, <<>>, 1, TRUE, TRUE),
       Options(<<"periodCount">>, <<>>, 2, TRUE, TRUE) >>

\* The windows callers pass to getPeriodAnalysis
Windows ==
    << [start |-> T(BaseDay, 0), end |-> T(BaseDay, MsPerDay - 1)],
       [start |-> T(BaseDay, 0), end |-> T(BaseDay + 1, MsPerDay - 1)] >>

\* The calls of the model: (collection, options) of generateAnalysisReport,
\* (collection, window) of getPeriodAnalysis, collection of getRealTimeStats
ReportInputs == {<<1, 1>>, <<1, 2>>, <<2, 1>>, <<3, 1>>, <<4, 1>>}

PeriodInputs == {<<5, 1>>, <<5, 2>>}

RealTimeInputs == {1, 2, 5}

(***************************************************************************)
(* State                                                                   *)
(***************************************************************************)
VARIABLES
    cache,        \* AnalyticsEngine.cache: key -> stored result
    cacheExpiry,  \* AnalyticsEngine.cacheExpiry: key -> instant of expiry
    clock,        \* the latest reading of the wall clock
    nextOid,      \* identity the next computed result object gets
    last,         \* the latest engine call: its arguments and what it returned
    calc          \* the latest MetricsCalculator call: its arguments and result

vars == <<cache, cacheExpiry, clock, nextOid, last, calc>>

engineVars == <<cache, cacheExpiry, clock, nextOid, last>>

(***************************************************************************)
(* AnalyticsEngine: results                                                *)
(*                                                                         *)
(* A result object is [oid, src, val]: oid is its identity (two results    *)
(* are the same object iff their oid is), src the call arguments it was    *)
(* computed from, val its content.  last records of a returned object its  *)
(* oid and src (the object itself is in the cache), and the content of     *)
(* what getRealTimeStats returned, which is in no cache.  Of the report    *)
(* the model keeps metadata, overview.overall / overview.periods.today     *)
(* and timePeriodAnalysis.day; of the period analysis, period and          *)
(* overview.  The clock readings made while one result is computed are     *)
(* taken to give the same instant; the reading made when the result is     *)
(* stored may be later.                                                    *)
(***************************************************************************)
NoResult == [oid |-> 0, src |-> <<0, 0, 0>>]

Ref(object) == [oid |-> object.oid, src |-> object.src]

Elements(s) == {s[i] : i \in 1..Len(s)}

generateOverview(todos, now) ==
    LET basicStats == calculateCompletionRate(todos, NoRange)
        todayStats == calculateCompletionRate(todos, Range(getStartOfDay(now), getEndOfDay(now)))
    IN  [overall |-> [total |-> basicStats.total, completed |-> basicStats.completed,
                      pending |-> basicStats.pending, completionRate |-> basicStats.completionRate,
                      pendingRate |-> basicStats.pendingRate,
                      createdToday |-> todayStats.total, completedToday |-> todayStats.completed],
         periods |-> [today |-> todayStats]]

\* The report generateAnalysisReport assembles on a miss
AnalysisReport(todos, options, now) ==
    LET includePeriods == IF Has(options, "includePeriods") THEN options.includePeriods
                          ELSE <<"day", "week", "month">>
        periodCount == IF Has(options, "periodCount") THEN options.periodCount ELSE 7
    IN  [metadata |-> [generatedAt |-> toISOString(now), totalTodos |-> Len(todos),
                       analysisOptions |-> options],
         overview |-> generateOverview(todos, now),
         timePeriodAnalysis |->
             [period \in Elements(includePeriods) \cap {"day"} |->
                 calculateTimePeriodStats(todos, now, period, periodCount)]]

\* The analysis getPeriodAnalysis assembles on a miss
PeriodAnalysis(todos, startDate, endDate) ==
    LET InWindow(todo) == InRange(todo, Range(startDate, endDate))
        filteredTodos == SelectSeq(todos, InWindow)
    IN  [period |-> [start |-> formatDate(startDate, "YYYY-MM-DD"),
                     end |-> formatDate(endDate, "YYYY-MM-DD"),
                     duration |-> getDaysDifference(startDate, endDate) + 1],
         overview |-> calculateCompletionRate(filteredTodos, NoRange)]

RealTimeStats(todos, now) ==
    [timestamp |-> toISOString(now),
     overview |-> calculateCompletionRate(todos, NoRange),
     today |-> calculateCompletionRate(todos, Range(getStartOfDay(now), getEndOfDay(now)))]

\* The texts and contents above for the inputs of the model, by index
ReportJson ==
    [ri \in 1..Len(Collections), oi \in 1..Len(OptionSets) |->
        JsonReportData(Collections[ri], OptionSets[oi])]

PeriodJson ==
    [ri \in 1..Len(Collections), wi \in 1..Len(Windows) |->
        JsonPeriodData(Len(Collections[ri]), Windows[wi].start, Windows[wi].end)]

ReportAt ==
    [ri \in 1..Len(Collections), oi \in 1..Len(OptionSets), now \in ClockValues |->
        AnalysisReport(Collections[ri], OptionSets[oi], now)]

PeriodAnalysisOf ==
    [ri \in 1..Len(Collections), wi \in 1..Len(Windows) |->
        PeriodAnalysis(Collections[ri], Windows[wi].start, Windows[wi].end)]

RealTimeStatsAt ==
    [ri \in 1..Len(Collections), now \in ClockValues |-> RealTimeStats(Collections[ri], now)]

Call(op, ri, oi, wi, at, hit, isNull, result, val) ==
    [op |-> op, ri |-> ri, oi |-> oi, wi |-> wi, at |-> at, hit |-> hit,
     isNull |-> isNull, result |-> result, val |-> val]

(***************************************************************************)
(* AnalyticsEngine: operations                                             *)
(***************************************************************************)
\* The body shared by generateAnalysisReport and getPeriodAnalysis: make the
\* key, look it up, on a hit look it up again and return that, on a miss
\* compute, store and return.  json is the text the key is cut from and
\* computed[now] the content computed at a clock reading of now.
CachedCall(op, prefix, json, computed, ri, oi, wi) ==
    \E t0 \in Reads(clock) :
      LET key == generateCacheKey(prefix, json, t0) IN
      \E t1 \in (IF key \in DOMAIN cacheExpiry THEN Reads(t0) ELSE {t0}) :
        LET first == getCachedResult(cache, cacheExpiry, key, t1) IN
        IF first.found
        THEN \E t2 \in Reads(t1) :
               LET second == getCachedResult(first.cache, first.cacheExpiry, key, t2) IN
               /\ cache' = second.cache
               /\ cacheExpiry' = second.cacheExpiry
               /\ clock' = t2
               /\ nextOid' = nextOid
               /\ last' = Call(op, ri, oi, wi, t0, TRUE, ~second.found,
                               IF second.found THEN Ref(second.cache[key]) ELSE NoResult,
                               EmptyMap)
        ELSE \E tc \in Reads(t1) : \E ts \in Reads(tc) :
               LET result == [oid |-> nextOid, src |-> <<ri, oi, wi>>, val |-> computed[tc]]
                   stored == setCachedResult(first.cache, first.cacheExpiry, key, result, ts)
               IN  /\ nextOid <= MaxObjects
                   /\ cache' = stored.cache
                   /\ cacheExpiry' = stored.cacheExpiry
                   /\ clock' = ts
                   /\ nextOid' = nextOid + 1
                   /\ last' = Call(op, ri, oi, wi, t0, FALSE, FALSE, Ref(result), EmptyMap)

generateAnalysisReport(ri, oi) ==
    LET computed == [now \in ClockValues |-> ReportAt[ri, oi, now]]
    IN  /\ CachedCall("generateAnalysisReport", "fullReport", ReportJson[ri, oi], computed, ri, oi, 0)
        /\ UNCHANGED calc

getPeriodAnalysis(ri, wi) ==
    LET computed == [now \in ClockValues |-> PeriodAnalysisOf[ri, wi]]
    IN  /\ CachedCall("getPeriodAnalysis", "periodAnalysis", PeriodJson[ri, wi], computed, ri, 0, wi)
        /\ UNCHANGED calc

getRealTimeStatsCached(ri) ==
    \E now \in Reads(clock) :
      LET result == [oid |-> 0, src |-> <<ri, 0, 0>>, val |-> RealTimeStatsAt[ri, now]]
          key == generateCacheKey("realTime", <<>>, now)
          stored == setCachedResult(cache, cacheExpiry, key, result, now)
      IN  /\ clock' = now
          /\ last' = Call("getRealTimeStats", ri, 0, 0, now, FALSE, FALSE, Ref(result), result.val)
          /\ cache' = stored.cache
          /\ cacheExpiry' = stored.cacheExpiry
          /\ UNCHANGED <<nextOid, calc>>

getRealTimeStats(ri) ==
    \E now \in Reads(clock) :
      /\ clock' = now
      /\ last' = Call("getRealTimeStats", ri, 0, 0, now, FALSE, FALSE,
                      [oid |-> 0, src |-> <<ri, 0, 0>>], RealTimeStatsAt[ri, now])
      /\ UNCHANGED <<cache, cacheExpiry, nextOid, calc>>

clearCache ==
    LET cleared == clearCacheMaps(cache, cacheExpiry)
    IN  /\ cache' = cleared.cache
        /\ cacheExpiry' = cleared.cacheExpiry
        /\ last' = Call("clearCache", 0, 0, 0, clock, FALSE, FALSE, NoResult, EmptyMap)
        /\ UNCHANGED <<clock, nextOid, calc>>

(***************************************************************************)
(* MetricsCalculator calls on their own                                    *)
(*                                                                         *)
(* calc holds the arguments of a calculator call (drawn at the start) and, *)
(* once a function has been applied to them, its name and result.          *)
(***************************************************************************)
\* Longest record collection, and most buckets asked of timePeriodStats
MaxTodos == 2

MaxPeriods == 3

\* Records around the day boundaries of 28 February .. 2 March 2024
TodoPool ==
    { Todo(GeneratedId, <<"a">>, <<>>, FALSE, T(BaseDay, 0), FALSE, T(0, 0)),
      Todo(GeneratedId2, <<"b", "c">>, <<"d">>, TRUE, T(BaseDay, MsPerDay - 1), TRUE, T(BaseDay + 1, 5)),
      Todo(TempId, <<"a">>, <<" ">>, FALSE, T(BaseDay - 1, MsPerDay - 1), FALSE, T(0, 0)),
      Todo(TempId, <<"e">>, <<"f", " ">>, TRUE, T(BaseDay - 2, MsPerDay \div 2), TRUE, T(BaseDay - 2, MsPerDay - 1)),
      Todo(GeneratedId, <<"a">>, <<>>, TRUE, T(BaseDay - 3, 7), FALSE, T(0, 0)) }

RECURSIVE SeqsUpTo(_, _)
SeqsUpTo(S, n) ==
    IF n = 0 THEN {<<>>}
    ELSE SeqsUpTo(S, n - 1) \cup {Append(q, x) : q \in {r \in SeqsUpTo(S, n - 1) : Len(r) = n - 1}, x \in S}

CalcCollections == SeqsUpTo(TodoPool, MaxTodos)

CalcNows == {T(BaseDay, 0), T(BaseDay, MsPerDay \div 2), T(BaseDay + 1, MsPerDay - 1)}

CalcRanges ==
    { NoRange,
      Range(T(BaseDay, 0), T(BaseDay, MsPerDay - 1)),
      Range(T(BaseDay - 2, MsPerDay \div 2), T(BaseDay, 0)),
      Range(T(BaseDay - 1, 0), T(BaseDay - 1, MsPerDay - 2)) }

CalcIdle ==
    [op |-> "none", todos |-> <<>>, now |-> T(0, 0), range |-> NoRange, count |-> 0,
     result |-> EmptyMap]

CalcInputs ==
    [op : {"none"}, todos : CalcCollections, now : CalcNows, range : CalcRanges,
     count : 0..MaxPeriods, result : {EmptyMap}]

Apply(op, result) == calc' = [calc EXCEPT !.op = op, !.result = result]

CompletionRate ==
    /\ calc.op = "none"
    /\ Apply("completionRate", calculateCompletionRate(calc.todos, calc.range))
    /\ UNCHANGED engineVars

TimePeriodStats ==
    /\ calc.op = "none"
    /\ Apply("timePeriodStats", calculateTimePeriodStats(calc.todos, calc.now, "day", calc.count))
    /\ UNCHANGED engineVars

TaskPatterns ==
    /\ calc.op = "none"
    /\ Apply("taskPatterns", analyzeTaskPatterns(calc.todos))
    /\ UNCHANGED engineVars

EngineInit ==
    /\ cache = EmptyMap
    /\ cacheExpiry = EmptyMap
    /\ clock = StartClock
    /\ nextOid = 1
    /\ last = [op |-> "constructor", ri |-> 0, oi |-> 0, wi |-> 0, at |-> StartClock,
               hit |-> FALSE, isNull |-> FALSE, result |-> NoResult, val |-> EmptyMap]

Init == EngineInit /\ calc = CalcIdle

Next ==
    \/ \E inp \in ReportInputs : generateAnalysisReport(inp[1], inp[2])
    \/ \E inp \in PeriodInputs : getPeriodAnalysis(inp[1], inp[2])
    \/ \E ri \in RealTimeInputs : getRealTimeStats(ri)
    \/ clearCache

Spec == Init /\ [][Next]_vars

InitCalc == EngineInit /\ calc \in CalcInputs

NextCalc == CompletionRate \/ TimePeriodStats \/ TaskPatterns

SpecCalc == InitCalc /\ [][NextCalc]_vars

(***************************************************************************)
(* Properties of the cache (specification Spec)                            *)
(***************************************************************************)
IsCachedCall(call) == call.op \in {"generateAnalysisReport", "getPeriodAnalysis"}

\* The keys under which cache c holds a result computed from the arguments
\* of call
EntriesOf(c, call) == {k \in DOMAIN c : c[k].src = <<call.ri, call.oi, call.wi>>}

\* The key the call made
KeyOf(call) ==
    IF call.op = "generateAnalysisReport"
    THEN generateCacheKey("fullReport", ReportJson[call.ri, call.oi], call.at)
    ELSE generateCacheKey("periodAnalysis", PeriodJson[call.ri, call.wi], call.at)

\* The call computed a new object and returned it
ReturnedFresh(call, oid) ==
    /\ ~call.hit
    /\ ~call.isNull
    /\ call.result.oid = oid
    /\ call.result.src = <<call.ri, call.oi, call.wi>>

\* C1: a generateReport call whose arguments have an entry in the cache that
\* is still inside its time-to-live when the call ends returns the object of
\* such an entry and leaves the cache as it was (no recomputation, no second
\* entry).
C1_RepeatWithinTtlReturnsCached ==
    [][ last'.op = "generateAnalysisReport" =>
          LET live == {k \in EntriesOf(cache, last') :
                          k \in DOMAIN cacheExpiry /\ Before(clock', cacheExpiry[k])}
          IN  live # {} =>
                /\ ~last'.isNull
                /\ \E k \in live : last'.result.oid = cache[k].oid
                /\ cache' = cache
                /\ cacheExpiry' = cacheExpiry
                /\ nextOid' = nextOid ]_vars

\* C2: generateReport(R2, O) never returns a report that was computed from a
\* different collection R1 of the same length.
C2_NeverServedForOtherInput ==
    (last.op = "generateAnalysisReport" /\ ~last.isNull) =>
        ~ /\ Collections[last.result.src[1]] # Collections[last.ri]
          /\ Len(Collections[last.result.src[1]]) = Len(Collections[last.ri])

\* C3: the life of a cache entry: it is created only by a call that missed,
\* with expiry = the clock at the store + ttl; the first call with the same
\* arguments made at or after its expiry removes it (or replaces its value);
\* and nothing else than such a lookup of its key, or clearCache, removes it.
C3_EntryLifecycle ==
    [][ /\ \A k \in (DOMAIN cache') \ (DOMAIN cache) :
             /\ IsCachedCall(last') /\ ~last'.hit
             /\ k \in DOMAIN cacheExpiry'
             /\ cacheExpiry'[k] = AddMs(clock', cacheDuration)
        /\ IsCachedCall(last') =>
             \A k \in EntriesOf(cache, last') :
                 (k \in DOMAIN cacheExpiry /\ AtOrBefore(cacheExpiry[k], last'.at)) =>
                     (k \notin DOMAIN cache' \/ cache'[k].oid # cache[k].oid)
        /\ \A k \in (DOMAIN cache) \ (DOMAIN cache') :
             \/ last'.op = "clearCache"
             \/ IsCachedCall(last') /\ k = KeyOf(last') ]_vars

\* The entries of the call's arguments exist and have all expired when the
\* call is made
AllExpired(c, e, call) ==
    /\ EntriesOf(c, call) # {}
    /\ \A k \in EntriesOf(c, call) : k \in DOMAIN e /\ AtOrBefore(e[k], call.at)

\* C4: once the entry of (R, O) has expired, the next generateReport(R, O)
\* returns a newly computed report, stores it with expiry = now + ttl, and
\* this report is equal in value to the one that was cached.
C4_RecomputedAfterExpiryValueEqual ==
    [][ (last'.op = "generateAnalysisReport" /\ AllExpired(cache, cacheExpiry, last')) =>
          /\ ReturnedFresh(last', nextOid)
          /\ \A k \in DOMAIN cache : cache[k].oid # last'.result.oid
          /\ KeyOf(last') \in DOMAIN cache' /\ cache'[KeyOf(last')].oid = last'.result.oid
          /\ KeyOf(last') \in DOMAIN cacheExpiry'
          /\ cacheExpiry'[KeyOf(last')] = AddMs(clock', cacheDuration)
          /\ \A k \in EntriesOf(cache, last') : cache[k].val = cache'[KeyOf(last')].val ]_vars

\* C5: generateReport and getPeriodAnalysis always return a result object,
\* never null.
C5_NeverReturnsNull == IsCachedCall(last) => ~last.isNull

\* C6: right after clearCache both maps are empty, and the generateReport or
\* getPeriodAnalysis call that follows it misses and returns a newly computed
\* result for its own arguments.
C6_ClearCacheResets ==
    /\ [](last.op = "clearCache" => (DOMAIN cache = {} /\ DOMAIN cacheExpiry = {}))
    /\ [][ (last.op = "clearCache" /\ IsCachedCall(last')) =>
              /\ ReturnedFresh(last', nextOid)
              /\ cache'[KeyOf(last')].oid = last'.result.oid
              /\ cache'[KeyOf(last')].src = last'.result.src ]_vars

\* clearCache has just emptied a cache that results had been stored in
C6_Witness == last.op = "clearCache" /\ nextOid > 1 /\ DOMAIN cache = {}

\* C7: getRealTimeStats leaves both maps of the cache as they were, and what
\* it returns is computed from its own records and its own clock reading.
C7_RealTimeStatsUncached ==
    [][ last'.op = "getRealTimeStats" =>
          /\ cache' = cache
          /\ cacheExpiry' = cacheExpiry
          /\ last'.val.timestamp = toISOString(clock')
          /\ last'.val.overview.total = Len(Collections[last'.ri])
          /\ last'.val.today.total =
               Cardinality({i \in 1..Len(Collections[last'.ri]) :
                              Collections[last'.ri][i].createTime.day = clock'.day}) ]_vars

\* getRealTimeStats has been called while the cache held an entry, at a time
\* when one of its records was created today and another was not
C7_Witness ==
    /\ last.op = "getRealTimeStats"
    /\ DOMAIN cache # {}
    /\ last.val.today.total > 0
    /\ last.val.today.total < last.val.overview.total


\* The records of calc.todos that a range argument selects (all of them
\* when there is none), by position
Selected(start, end) ==
    {i \in 1..Len(calc.todos) :
        AtOrBefore(start, calc.todos[i].createTime) /\ AtOrBefore(calc.todos[i].createTime, end)}

\* C8: completionRate counts every record when it has no range and, with a
\* range, the records created in [start, end], both ends included; completed
\* is the number of counted records whose flag is set, and completed and
\* pending add up to total.
C8_CompletionRateTotals ==
    calc.op = "completionRate" =>
        LET counted == IF calc.range.present
                       THEN Selected(calc.range.start, calc.range.end)
                       ELSE 1..Len(calc.todos)
        IN  /\ calc.result.total = Cardinality(counted)
            /\ ~calc.range.present => calc.result.total = Len(calc.todos)
            /\ calc.result.completed = Cardinality({i \in counted : calc.todos[i].completed})
            /\ calc.result.completed + calc.result.pending = calc.result.total

C8_Witness ==
    /\ calc.op = "completionRate" /\ calc.range.present
    /\ \E i, j \in 1..Len(calc.todos) :
          /\ calc.todos[i].createTime = calc.range.end
          /\ calc.todos[i].completed
          /\ Before(calc.todos[j].createTime, calc.range.start)
    /\ calc.result.total = 1 /\ calc.result.completed = 1

\* C9: on an empty record array every calculator function returns zero or
\* neutral numbers: completionRate all zeros, every bucket of timePeriodStats
\* all zeros, and the numeric fields of the task patterns proper numbers,
\* never NaN.
C9_EmptyArrayWellDefined ==
    Len(calc.todos) = 0 =>
        /\ calc.op = "completionRate" =>
              calc.result = [total |-> 0, completed |-> 0, pending |-> 0,
                             completionRate |-> 0, pendingRate |-> 0]
        /\ calc.op = "timePeriodStats" =>
              \A j \in 1..calc.count :
                  /\ calc.result[j].total = 0 /\ calc.result[j].completed = 0
                  /\ calc.result[j].pending = 0
                  /\ calc.result[j].completionRate = 0 /\ calc.result[j].pendingRate = 0
        /\ calc.op = "taskPatterns" =>
              /\ calc.result.avgTitleLength.kind = "number"
              /\ calc.result.descriptionUsage.kind = "number"

\* C10: timePeriodStats(records, 'day', n) returns n buckets, oldest first
\* and today's last; each is one whole calendar day, each starts at the
\* instant after the one before it ends, each counts the records created
\* inside it, and a record created in the covered span is in exactly one.
C10_DayBucketsContiguous ==
    calc.op = "timePeriodStats" =>
        LET buckets == calc.result
            n == calc.count
            In(j) == Selected(buckets[j].startDate, buckets[j].endDate)
        IN  /\ DOMAIN buckets = 1..n
            /\ n > 0 => /\ AtOrBefore(buckets[n].startDate, calc.now)
                        /\ AtOrBefore(calc.now, buckets[n].endDate)
            /\ \A j \in 1..n :
                  /\ getStartOfDay(buckets[j].startDate) = buckets[j].startDate
                  /\ buckets[j].endDate = AddMs(buckets[j].startDate, MsPerDay - 1)
                  /\ buckets[j].total = Cardinality(In(j))
            /\ \A j \in 1..(n - 1) : buckets[j + 1].startDate = AddMs(buckets[j].endDate, 1)
            /\ \A j, k \in 1..n : j # k => In(j) \cap In(k) = {}
            /\ n > 0 => Selected(buckets[1].startDate, buckets[n].endDate)
                           = UNION {In(j) : j \in 1..n}

C10_Witness ==
    /\ calc.op = "timePeriodStats" /\ calc.count >= 2
    /\ \E j \in 1..(calc.count - 1) : \E i, k \in 1..Len(calc.todos) :
          /\ calc.todos[i].createTime = calc.result[j].endDate
          /\ calc.todos[k].createTime = calc.result[j + 1].startDate
          /\ calc.result[j].total = 1 /\ calc.result[j + 1].total = 1
          /\ getMonth(calc.result[j].startDate) # getMonth(calc.result[j + 1].startDate)

(***************************************************************************)
(* Month arithmetic (specification SpecMonth)                              *)
(*                                                                         *)
(* calc holds a clock reading, a collection and a bucket count; the        *)
(* readings run over every day of the twelve months from 1 April 2024.     *)
(***************************************************************************)
\* 1 April 2024
FirstNowDay == 31 + 29 + 31

MonthNows ==
    {T(d, m) : d \in FirstNowDay..(FirstNowDay + 364), m \in {0, MsPerDay \div 2, MsPerDay - 1}}

MonthInputs ==
    [op : {"none"}, todos : {<<>>, <<TodoA>>}, now : MonthNows, count : 0..MaxPeriods,
     result : {EmptyMap}]

ThisMonthRange ==
    /\ calc.op = "none"
    /\ Apply("thisMonthRange", thisMonthRange(calc.now))
    /\ UNCHANGED engineVars

MonthPeriodStats ==
    /\ calc.op = "none"
    /\ Apply("monthPeriodStats",
             calculateTimePeriodStats(calc.todos, calc.now, "month", calc.count))
    /\ UNCHANGED engineVars

InitMonth == EngineInit /\ calc \in MonthInputs

NextMonth == ThisMonthRange \/ MonthPeriodStats

SpecMonth == InitMonth /\ [][NextMonth]_vars

\* The number of the calendar month of an instant, counted from year 0
MonthIndex(t) == getFullYear(t) * 12 + getMonth(t)

\* The last instant of the calendar month of t
LastInstantOfMonth(t) ==
    T(DayFromYear(getFullYear(t)) + DaysBeforeMonth(getFullYear(t), getMonth(t) + 1) - 1,
      MsPerDay - 1)

\* C11: endOfMonth(t) is 23:59:59.999 of the last day of the month and year
\* of t, whatever the day of the month of t, and startOfMonth(t) <= t <=
\* endOfMonth(t): thisMonthRange contains now.
C11_EndOfMonthSameMonth ==
    calc.op = "thisMonthRange" =>
        /\ MonthIndex(calc.result.end) = MonthIndex(calc.now)
        /\ calc.result.end = LastInstantOfMonth(calc.now)
        /\ AtOrBefore(calc.result.start, calc.now)
        /\ AtOrBefore(calc.now, calc.result.end)

\* C12: timePeriodStats(records, 'month', n) returns n buckets, oldest first,
\* the bucket i places from the end being the whole i-th calendar month
\* before the current one: no month twice, none skipped.
C12_MonthBucketsConsecutive ==
    calc.op = "monthPeriodStats" =>
        /\ DOMAIN calc.result = 1..calc.count
        /\ \A j \in 1..calc.count :
              /\ MonthIndex(calc.result[j].startDate) = MonthIndex(calc.now) - (calc.count - j)
              /\ calc.result[j].startDate = getStartOfMonth(calc.result[j].startDate)
              /\ calc.result[j].endDate = LastInstantOfMonth(calc.result[j].startDate)

(***************************************************************************)
(* Productivity trend (specification SpecTrend)                            *)
(***************************************************************************)
MaxTrendTodos == 3

MaxDays == 3

\* Completed and pending records created today and on the two days before
TrendPool ==
    {Todo(TempId, <<"a">>, <<>>, done, T(BaseDay - back, MsPerDay \div 2), done,
          T(BaseDay, MsPerDay \div 2)) : done \in BOOLEAN, back \in 0..2}

TrendInputs ==
    [op : {"none"}, todos : SeqsUpTo(TrendPool, MaxTrendTodos),
     now : {T(BaseDay, MsPerDay - 1)}, count : 0..MaxDays, result : {EmptyMap}]

ProductivityTrend ==
    /\ calc.op = "none"
    /\ Apply("productivityTrend", calculateProductivityTrend(calc.todos, calc.now, calc.count))
    /\ UNCHANGED engineVars

InitTrend == EngineInit /\ calc \in TrendInputs

NextTrend == ProductivityTrend

SpecTrend == InitTrend /\ [][NextTrend]_vars

\* The completed records created on the day of bucket j of calc.count day
\* buckets ending today
CompletedOn(j) ==
    Cardinality({i \in 1..Len(calc.todos) :
                    /\ calc.todos[i].completed
                    /\ calc.todos[i].createTime.day = calc.now.day - (calc.count - j)})

\* C13: with fewer than 2 day buckets the trend is 'stable' with change 0
\* and dailyAverage 0; otherwise change is the least-squares slope of the
\* completed counts against the bucket index, the trend is 'stable' iff
\* |slope| < 0.1, else 'increasing' iff slope > 0, else 'decreasing'; counts
\* strictly increasing give 'increasing' with change > 0 and equal counts
\* give 'stable'.
C13_TrendClassification ==
    calc.op = "productivityTrend" =>
        LET n == calc.count
            r == calc.result
            xbar2 == n - 1
            \* with u = 2x - (n-1), twice the centred index: sxy is the sum of
            \* u * y, sxx the sum of u * u, and the slope is 2 * sxy / sxx
            sxy == SumOver([j \in 1..n |-> (2 * (j - 1) - xbar2) * CompletedOn(j)], 1, n)
            sxx == SumOver([j \in 1..n |-> (2 * (j - 1) - xbar2) * (2 * (j - 1) - xbar2)], 1, n)
        IN  IF n < 2
            THEN r.trend = "stable" /\ r.change.num = 0 /\ r.dailyAverage = 0
            ELSE /\ r.change.den > 0
                 /\ r.change.num * sxx = 2 * sxy * r.change.den
                 /\ r.trend = "stable" <=> 10 * Abs(2 * sxy) < sxx
                 /\ r.trend = "increasing" <=> (10 * Abs(2 * sxy) >= sxx /\ sxy > 0)
                 /\ r.trend = "decreasing" <=> (10 * Abs(2 * sxy) >= sxx /\ sxy < 0)
                 /\ (\A j \in 1..(n - 1) : CompletedOn(j) < CompletedOn(j + 1))
                       => (r.trend = "increasing" /\ r.change.num > 0)
                 /\ (\A j \in 1..(n - 1) : CompletedOn(j) = CompletedOn(j + 1))
                       => r.trend = "stable"

\* Three buckets with counts 0, 1, 2 classified as increasing
C13_Witness ==
    /\ calc.op = "productivityTrend" /\ calc.count = 3
    /\ CompletedOn(1) = 0 /\ CompletedOn(2) = 1 /\ CompletedOn(3) = 2
    /\ calc.result.trend = "increasing"
    /\ calc.result.change.num = calc.result.change.den

(***************************************************************************)
(* Procrastination level (specification SpecLevel)                         *)
(*                                                                         *)
(* calc holds two metrics objects and the results of                       *)
(* calculateProcrastinationLevel on them, in turn: the level it returns    *)
(* and the score it reached.                                               *)
(***************************************************************************)
MaxTasks == 3

\* avgCompletionDays, in tenths of a day: none, 7.0, 7.1, 17.0, 30.0
AvgCompletionValues == {0, 70, 71, 170, 300}

MetricsInputs ==
    {m \in [totalTasks : 0..MaxTasks, delayedTasks : 0..MaxTasks,
            longTermDelayed : 0..MaxTasks, veryLongTermDelayed : 0..MaxTasks,
            avgCompletionDays : AvgCompletionValues] :
        m.veryLongTermDelayed <= m.longTermDelayed /\ m.longTermDelayed <= m.delayedTasks
        /\ m.delayedTasks <= m.totalTasks}

LevelInputs ==
    [op : {"none"}, inputs : MetricsInputs \X MetricsInputs, results : {<<>>}]

ProcrastinationLevel ==
    /\ Len(calc.results) < 2
    /\ LET metrics == calc.inputs[Len(calc.results) + 1]
       IN  calc' = [calc EXCEPT !.op = "procrastinationLevel",
                                !.results = Append(@, [level |-> calculateProcrastinationLevel(metrics),
                                                       score |-> ProcrastinationScore(metrics)])]
    /\ UNCHANGED engineVars

InitLevel == EngineInit /\ calc \in LevelInputs

NextLevel == ProcrastinationLevel

SpecLevel == InitLevel /\ [][NextLevel]_vars

\* C14: the score is in [0, 100], its four parts are within their caps
\* 30, 25, 25 and 20, and the level is 'low' below 20, 'moderate' from 20
\* below 40, 'high' from 40 below 70 and 'very_high' from 70.
C14_ScoreBoundsAndLevels ==
    calc.op = "procrastinationLevel" =>
        \A i \in 1..Len(calc.results) :
            LET s == calc.results[i].score
                level == calc.results[i].level
            IN  /\ s.den > 0
                /\ 0 <= s.num /\ s.num <= 100 * s.den
                /\ 0 <= s.delayed /\ s.delayed <= 30 * s.den
                /\ 0 <= s.longTerm /\ s.longTerm <= 25 * s.den
                /\ 0 <= s.veryLongTerm /\ s.veryLongTerm <= 25 * s.den
                /\ 0 <= s.completion /\ s.completion <= 20 * s.den
                /\ s.num = s.delayed + s.longTerm + s.veryLongTerm + s.completion
                /\ level = "low" <=> s.num < 20 * s.den
                /\ level = "moderate" <=> (20 * s.den <= s.num /\ s.num < 40 * s.den)
                /\ level = "high" <=> (40 * s.den <= s.num /\ s.num < 70 * s.den)
                /\ level = "very_high" <=> 70 * s.den <= s.num

\* Scores 0 and 100 and a score between 40 and 70 have been computed
C14_Witness ==
    /\ calc.op = "procrastinationLevel" /\ Len(calc.results) = 2
    /\ calc.results[1].score.num = 100 * calc.results[1].score.den
    /\ calc.results[1].level = "very_high"
    /\ calc.results[2].level = "high"
    /\ 40 * calc.results[2].score.den < calc.results[2].score.num
    /\ calc.results[2].score.completion > 0

\* a / b <= c / d for counts, a ratio over 0 taken as 0
RatioLE(a, b, c, d) ==
    (IF b = 0 THEN 0 ELSE a) * (IF d = 0 THEN 1 ELSE d)
        <= (IF d = 0 THEN 0 ELSE c) * (IF b = 0 THEN 1 ELSE b)

\* No ratio and no average of m1 is above that of m2
NoneLowered(m1, m2) ==
    /\ RatioLE(m1.delayedTasks, m1.totalTasks, m2.delayedTasks, m2.totalTasks)
    /\ RatioLE(m1.longTermDelayed, m1.delayedTasks, m2.longTermDelayed, m2.delayedTasks)
    /\ RatioLE(m1.veryLongTermDelayed, m1.delayedTasks, m2.veryLongTermDelayed, m2.delayedTasks)
    /\ m1.avgCompletionDays <= m2.avgCompletionDays

LevelRank(level) ==
    CASE level = "low" -> 0 [] level = "moderate" -> 1 [] level = "high" -> 2 [] OTHER -> 3

\* C15: when the delayed ratio, the long-term and very-long-term ratios
\* among the delayed and the average completion time of one input are each
\* at or above those of another (one raised, the others fixed, in
\* particular), its score and its level are not lower.
C15_ScoreMonotonic ==
    (calc.op = "procrastinationLevel" /\ Len(calc.results) = 2
     /\ NoneLowered(calc.inputs[1], calc.inputs[2])) =>
        /\ calc.results[1].score.num * calc.results[2].score.den
              <= calc.results[2].score.num * calc.results[1].score.den
        /\ LevelRank(calc.results[1].level) <= LevelRank(calc.results[2].level)

\* Only the average completion time was raised, and score and level rose
C15_Witness ==
    /\ calc.op = "procrastinationLevel" /\ Len(calc.results) = 2
    /\ NoneLowered(calc.inputs[1], calc.inputs[2])
    /\ [calc.inputs[2] EXCEPT !.avgCompletionDays = 0]
          = [calc.inputs[1] EXCEPT !.avgCompletionDays = 0]
    /\ calc.inputs[1].avgCompletionDays < calc.inputs[2].avgCompletionDays
    /\ calc.inputs[1].delayedTasks > 0
    /\ LevelRank(calc.results[1].level) < LevelRank(calc.results[2].level)

(***************************************************************************)
(* Procrastination metrics (specification SpecProcrastination)             *)
(***************************************************************************)
\* The clock reading of the calls: 10 April 2024, 12:00
MetricsNow == T(BaseDay + 40, MsPerDay \div 2)

DaysBefore(t, days) == T(t.day - days, t.ms)

\* Pending and completed records created now, 1, 7 and 30 days ago to the
\* millisecond, one millisecond earlier than that, and (imported with a
\* later date) 2 days ahead
AgePool ==
    {Todo(TempId, <<"a">>, <<>>, done, created, done, IF Before(created, MetricsNow) THEN MetricsNow ELSE created) :
        done \in BOOLEAN,
        created \in {MetricsNow, DaysBefore(MetricsNow, 0 - 2)}
                    \cup {DaysBefore(MetricsNow, k) : k \in {1, 7, 30}}
                    \cup {AddMs(DaysBefore(MetricsNow, k + 1), MsPerDay - 1) : k \in {1, 7, 30}}}

\* 7 records created at `created` and completed at `updated`, and 3 pending
\* ones created 10 days ago
Scenario(created, updated, pendingFirst) ==
    LET done == [i \in 1..7 |-> Todo(GeneratedId, <<"a">>, <<>>, TRUE, created, TRUE, updated)]
        pending == [i \in 1..3 |-> Todo(GeneratedId2, <<"b">>, <<>>, FALSE,
                                        DaysBefore(MetricsNow, 10), FALSE, T(0, 0))]
    IN  IF pendingFirst THEN pending \o done ELSE done \o pending

ScenarioCollections ==
    {Scenario(created, IF atOnce THEN created ELSE MetricsNow, pendingFirst) :
        created \in {DaysBefore(MetricsNow, 2), AddMs(DaysBefore(MetricsNow, 1), 1), MetricsNow},
        atOnce \in BOOLEAN, pendingFirst \in BOOLEAN}

ProcrastinationInputs ==
    [op : {"none"}, todos : SeqsUpTo(AgePool, MaxTodos) \cup ScenarioCollections,
     now : {MetricsNow}, range : {NoRange}, count : {0}, result : {EmptyMap}]

ProcrastinationMetrics ==
    /\ calc.op = "none"
    /\ Apply("procrastinationMetrics", calculateProcrastinationMetrics(calc.todos, calc.now))
    /\ UNCHANGED engineVars

InitProcrastination == EngineInit /\ calc \in ProcrastinationInputs

NextProcrastination == CompletionRate \/ ProcrastinationMetrics

SpecProcrastination == InitProcrastination /\ [][NextProcrastination]_vars

\* 10 records: 7 completed, created and completed within the 2 days before
\* now, and 3 pending, created 10 days before now
IsScenario(todos, now) ==
    /\ Len(todos) = 10
    /\ Cardinality({i \in 1..10 : todos[i].completed}) = 7
    /\ \A i \in 1..10 :
          IF todos[i].completed
          THEN /\ AtOrBefore(DaysBefore(now, 2), todos[i].createTime)
               /\ todos[i].hasUpdateTime
               /\ AtOrBefore(todos[i].createTime, todos[i].updateTime)
               /\ AtOrBefore(todos[i].updateTime, now)
          ELSE todos[i].createTime = DaysBefore(now, 10)

\* C16: on the scenario completionRate is 70, delayedTasks is 3,
\* longTermDelayed is 3, veryLongTermDelayed is 0 and the level is
\* 'moderate' or higher.
C16_ScenarioTenRecords ==
    IsScenario(calc.todos, calc.now) =>
        /\ calc.op = "completionRate" => calc.result.completionRate = 70
        /\ calc.op = "procrastinationMetrics" =>
              /\ calc.result.delayedTasks = 3
              /\ calc.result.longTermDelayed = 3
              /\ calc.result.veryLongTermDelayed = 0
              /\ LevelRank(calc.result.procrastinationLevel) >= LevelRank("moderate")

C16_Witness ==
    /\ IsScenario(calc.todos, calc.now)
    /\ calc.op = "procrastinationMetrics"
    /\ calc.result.delayedTasks = 3
    /\ calc.result.procrastinationLevel = "moderate"
    /\ calc.result.avgCompletionDays = 20

\* More than `days` whole days lie between the two instants
ElapsedOver(a, b, days) ==
    IF Before(a, b) THEN Before(T(a.day + days, a.ms), b) ELSE Before(T(b.day + days, b.ms), a)

\* The pending records of calc.todos created more than `days` days from now
PendingOver(days) ==
    {i \in 1..Len(calc.todos) :
        ~calc.todos[i].completed /\ ElapsedOver(calc.todos[i].createTime, calc.now, days)}

\* C17: delayedTasks, longTermDelayed and veryLongTermDelayed count the
\* pending records whose time between createTime and now is strictly more
\* than 1, 7 and 30 days (completed records never); one pending record
\* created exactly now gives delayedTasks 0 and level 'low'.
C17_DelayThresholds ==
    calc.op = "procrastinationMetrics" =>
        /\ calc.result.delayedTasks = Cardinality(PendingOver(1))
        /\ calc.result.longTermDelayed = Cardinality(PendingOver(7))
        /\ calc.result.veryLongTermDelayed = Cardinality(PendingOver(30))
        /\ (Len(calc.todos) = 1 /\ ~calc.todos[1].completed
            /\ calc.todos[1].createTime = calc.now) =>
              (calc.result.delayedTasks = 0 /\ calc.result.procrastinationLevel = "low")

\* A pending record exactly 1 day old is not counted, one a millisecond
\* older is
C17_Witness ==
    /\ calc.op = "procrastinationMetrics" /\ Len(calc.todos) = 2
    /\ ~calc.todos[1].completed /\ ~calc.todos[2].completed
    /\ calc.todos[1].createTime = DaysBefore(calc.now, 1)
    /\ calc.todos[2].createTime = AddMs(DaysBefore(calc.now, 2), MsPerDay - 1)
    /\ calc.result.delayedTasks = 1

(***************************************************************************)
(* Streaks (specification SpecStreaks)                                     *)
(***************************************************************************)
MaxStreakTodos == 3

\* The clock reading of the calls: 1 March 2024, 12:00
StreakNow == T(BaseDay, MsPerDay \div 2)

\* Records completed today at 00:00:00.000, yesterday at 23:59:59.999, two
\* and four days ago, a pending one and one completed without an updateTime
StreakPool ==
    {Todo(TempId, <<"a">>, <<>>, TRUE, T(BaseDay - 5, 0), TRUE, updated) :
        updated \in {T(BaseDay, 0), T(BaseDay - 1, MsPerDay - 1),
                     T(BaseDay - 2, MsPerDay \div 2), T(BaseDay - 4, 1)}}
    \cup {Todo(TempId, <<"a">>, <<>>, FALSE, T(BaseDay - 5, 0), FALSE, T(0, 0)),
          Todo(TempId, <<"a">>, <<>>, TRUE, T(BaseDay - 5, 0), FALSE, T(0, 0))}

StreakInputs ==
    [op : {"none"}, todos : SeqsUpTo(StreakPool, MaxStreakTodos), now : {StreakNow},
     result : {EmptyMap}]

Streaks ==
    /\ calc.op = "none"
    /\ Apply("streaks", calculateStreaks(calc.todos, calc.now))
    /\ UNCHANGED engineVars

InitStreaks == EngineInit /\ calc \in StreakInputs

NextStreaks == Streaks

SpecStreaks == InitStreaks /\ [][NextStreaks]_vars

\* Some completed record of calc.todos has its updateTime on the day `back`
\* days before today
CompletionOn(back) ==
    \E i \in 1..Len(calc.todos) :
        /\ calc.todos[i].completed /\ calc.todos[i].hasUpdateTime
        /\ calc.todos[i].updateTime.day = calc.now.day - back

\* The days back from today, today included, that each have a completion,
\* up to the first day with none
StreakDays == {k \in 1..Len(calc.todos) : \A back \in 0..(k - 1) : CompletionOn(back)}

\* C18: currentStreak is the number of consecutive calendar days, walking
\* back from today, that each have a completed record with its updateTime
\* on that day, and streakDates lists those days.
C18_CurrentStreakCountsDays ==
    calc.op = "streaks" =>
        /\ calc.result.currentStreak = Cardinality(StreakDays)
        /\ Len(calc.result.streakDates) = Cardinality(StreakDays)
        /\ \A k \in StreakDays :
              \E i \in 1..Len(calc.result.streakDates) :
                  calc.result.streakDates[i]
                      = formatDate(T(calc.now.day - (k - 1), 0), "YYYY-MM-DD")

(***************************************************************************)
(* Export (specification SpecExport)                                       *)
(*                                                                         *)
(* exportAnalysisData is a function of the report and the format and       *)
(* touches no field of the engine.  Of the report the model keeps what     *)
(* AnalysisReport keeps and the sections the exporters read:               *)
(* productivityTrend, procrastinationAnalysis, personalizedInsights (task  *)
(* patterns and streaks) and                                               *)
(* recommendations.immediate (each entry by its priority and category).    *)
(* A section that is null in the program is [isNull |-> TRUE].             *)
(***************************************************************************)
\* calculateProductivityTrend(todos, days = 30)
TrendDays == 30

\* pendingRatio > 0.7 is pending * 10 > total * 7 on counts
generateRecommendations(todos, now) ==
    LET procrastinationMetrics == calculateProcrastinationMetrics(todos, now)
        overview == generateOverview(todos, now)
        urgent == IF procrastinationMetrics.procrastinationLevel = "very_high"
                  THEN <<[priority |-> "high", category |-> "procrastination"]>> ELSE <<>>
        cleanup == IF overview.overall.total > 0
                      /\ overview.overall.pending * 10 > overview.overall.total * 7
                   THEN <<[priority |-> "high", category |-> "task_management"]>> ELSE <<>>
        planning == IF overview.periods.today.total = 0 /\ Len(todos) > 0
                    THEN <<[priority |-> "medium", category |-> "daily_planning"]>> ELSE <<>>
    IN  [isNull |-> FALSE, immediate |-> urgent \o cleanup \o planning]

calculatePersonalizedInsights(todos, now) ==
    [isNull |-> FALSE, taskPatterns |-> analyzeTaskPatterns(todos),
     streaks |-> calculateStreaks(todos, now)]

\* The report of generateAnalysisReport with the sections the exporters read
FullReport(todos, options, now) ==
    LET base == AnalysisReport(todos, options, now)
        includeInsights == IF Has(options, "includeInsights")
                           THEN options.includeInsights ELSE TRUE
        includeRecommendations == IF Has(options, "includeRecommendations")
                                  THEN options.includeRecommendations ELSE TRUE
        trend == calculateProductivityTrend(todos, now, TrendDays)
    IN  [metadata |-> base.metadata,
         overview |-> base.overview,
         timePeriodAnalysis |-> base.timePeriodAnalysis,
         productivityTrend |-> trend,
         procrastinationAnalysis |-> calculateProcrastinationMetrics(todos, now),
         personalizedInsights |-> IF includeInsights
                                  THEN calculatePersonalizedInsights(todos, now)
                                  ELSE [isNull |-> TRUE],
         recommendations |-> IF includeRecommendations
                             THEN generateRecommendations(todos, now)
                             ELSE [isNull |-> TRUE]]

\* A value that is a Date object, and one that is a string, by their text
DateValue(t) == [type |-> "Date", text |-> toISOString(t)]

StringValue(text) == [type |-> "string", text |-> text]

\* JSON.stringify writes a Date as the string of its toJSON (toISOString)
JsonDate(t) == StringValue(toISOString(t))

\* JSON.stringify writes NaN and Infinity as null
JsonNumber(x) == IF x.kind \in {"NaN", "Infinity"} THEN Null ELSE x

JsonBucket(bucket) ==
    [bucket EXCEPT !.startDate = JsonDate(@), !.endDate = JsonDate(@)]

\* The value the text JSON.stringify(analysisData, null, 2) denotes (what
\* JSON.parse makes of it)
JsonDocument(data) ==
    [data EXCEPT
        !.timePeriodAnalysis =
            [period \in DOMAIN @ |-> [j \in 1..Len(@[period]) |-> JsonBucket(@[period][j])]],
        !.productivityTrend.periods = [j \in 1..Len(@) |-> JsonBucket(@[j])],
        !.personalizedInsights =
            IF @.isNull THEN @
            ELSE [@ EXCEPT !.taskPatterns.avgTitleLength = JsonNumber(@),
                           !.taskPatterns.descriptionUsage = JsonNumber(@)]]

Returned(kind, output) ==
    [ok |-> TRUE, error |-> [name |-> "", format |-> ""], kind |-> kind, output |-> output]

Thrown(name, format) ==
    [ok |-> FALSE, error |-> [name |-> name, format |-> format], kind |-> "", output |-> <<>>]

convertToCSVUnguarded(data) ==
    IF "day" \in DOMAIN data.timePeriodAnalysis
    THEN Returned("csv",
             [j \in 1..Len(data.timePeriodAnalysis["day"]) |->
                 [label |-> data.timePeriodAnalysis["day"][j].label,
                  total |-> data.timePeriodAnalysis["day"][j].total,
                  completed |-> data.timePeriodAnalysis["day"][j].completed,
                  completionRate |-> data.timePeriodAnalysis["day"][j].completionRate]])
    ELSE Thrown("TypeError", "")

\* The rows after the header row, one per day bucket, by their four values
convertToCSV(data) ==
    IF "day" \in DOMAIN data.timePeriodAnalysis
    THEN Returned("csv",
             [j \in 1..Len(data.timePeriodAnalysis["day"]) |->
                 [label |-> data.timePeriodAnalysis["day"][j].label,
                  total |-> data.timePeriodAnalysis["day"][j].total,
                  completed |-> data.timePeriodAnalysis["day"][j].completed,
                  completionRate |-> data.timePeriodAnalysis["day"][j].completionRate]])
    ELSE Returned("csv", <<>>)

\* The summary by the values its lines show (the trend's description by the
\* trend it describes); the recommendations lines are written only when the
\* section is not null
generateTextSummary(data) ==
    Returned("summary",
        [generatedAt |-> data.metadata.generatedAt,
         overall |-> [total |-> data.overview.overall.total,
                      completed |-> data.overview.overall.completed,
                      completionRate |-> data.overview.overall.completionRate,
                      pending |-> data.overview.overall.pending,
                      pendingRate |-> data.overview.overall.pendingRate],
         productivityTrend |-> [trend |-> data.productivityTrend.trend,
                                dailyAverage |-> data.productivityTrend.dailyAverage],
         procrastination |->
             [procrastinationLevel |-> data.procrastinationAnalysis.procrastinationLevel,
              delayedTasks |-> data.procrastinationAnalysis.delayedTasks,
              longTermDelayed |-> data.procrastinationAnalysis.longTermDelayed],
         recommendations |-> IF data.recommendations.isNull THEN <<>>
                             ELSE data.recommendations.immediate])

\* The error of the default case is new Error(<fixed text> + format)
exportAnalysisData(analysisData, format) ==
    CASE format = "json" -> Returned("json", JsonDocument(analysisData))
      [] format = "csv" -> convertToCSV(analysisData)
      [] format = "summary" -> generateTextSummary(analysisData)
      [] OTHER -> Thrown("Error", format)

SupportedFormats == {"json", "csv", "summary"}

\* 'report' is what the report button of main.js asks for
Formats == SupportedFormats \cup {"structured", "report"}

ExportOptionSets ==
    { Options(<<"periodCount">>, <<>>, 1, TRUE, TRUE),
      Options(<<"includePeriods", "periodCount">>, <<"month">>, 1, TRUE, TRUE),
      Options(<<"periodCount", "includeInsights", "includeRecommendations">>,
              <<>>, 2, FALSE, FALSE) }

ExportInputs ==
    [op : {"none"},
     report : {FullReport(Collections[ri], options, now) :
                  ri \in {1, 2, 5}, options \in ExportOptionSets, now \in ClockValues},
     format : Formats, result : {EmptyMap}]

ExportAnalysisData ==
    /\ calc.op = "none"
    /\ Apply("exportAnalysisData", exportAnalysisData(calc.report, calc.format))
    /\ UNCHANGED engineVars

InitExport == EngineInit /\ calc \in ExportInputs

NextExport == ExportAnalysisData

SpecExport == InitExport /\ [][NextExport]_vars

\* C19: what the 'json' export deserializes to equals the report in every
\* field; the startDate and endDate of each bucket are Date objects of the
\* same instant again, and every number is the number it was.
C19_JsonRoundTrip ==
    (calc.op = "exportAnalysisData" /\ calc.format = "json") =>
        LET parsed == calc.result.output
            report == calc.report
        IN  /\ calc.result.ok
            /\ parsed.metadata = report.metadata
            /\ parsed.overview = report.overview
            /\ parsed.productivityTrend =
                  [report.productivityTrend EXCEPT
                      !.periods = [j \in 1..Len(@) |->
                                      [@[j] EXCEPT !.startDate = DateValue(@),
                                                   !.endDate = DateValue(@)]]]
            /\ parsed.procrastinationAnalysis = report.procrastinationAnalysis
            /\ parsed.recommendations = report.recommendations
            /\ parsed.personalizedInsights = report.personalizedInsights
            /\ DOMAIN parsed.timePeriodAnalysis = DOMAIN report.timePeriodAnalysis
            /\ \A period \in DOMAIN report.timePeriodAnalysis :
                  /\ Len(parsed.timePeriodAnalysis[period]) = Len(report.timePeriodAnalysis[period])
                  /\ \A j \in 1..Len(report.timePeriodAnalysis[period]) :
                        LET bucket == report.timePeriodAnalysis[period][j]
                        IN  parsed.timePeriodAnalysis[period][j]
                               = [bucket EXCEPT !.startDate = DateValue(@),
                                                !.endDate = DateValue(@)]

\* C20: a format other than 'json', 'csv' and 'summary' fails with an error
\* that names the format and gives no output; a supported format does not
\* fail; and the call changes neither the report nor the engine's cache.
C20_ExportFormats ==
    /\ [](calc.op = "exportAnalysisData" =>
            IF calc.format \in SupportedFormats
            THEN calc.result.ok /\ calc.result.kind = calc.format
            ELSE /\ ~calc.result.ok
                 /\ calc.result.error = [name |-> "Error", format |-> calc.format]
                 /\ calc.result.output = <<>>)
    /\ [][calc'.op = "exportAnalysisData" =>
            /\ calc'.report = calc.report
            /\ cache' = cache /\ cacheExpiry' = cacheExpiry]_vars

\* The export in the format 'report', which main.js asks for, has failed
C20_Witness ==
    /\ calc.op = "exportAnalysisData"
    /\ calc.format = "report"
    /\ calc.result.error.format = "report"

(***************************************************************************)
(* The caller's array (specification SpecFrame)                            *)
(*                                                                         *)
(* Arrays are objects: m.arrays holds the arrays that exist, m.arrays[1]   *)
(* is the array the caller passed, and m.ref is the array an expression    *)
(* has evaluated to.  filter and slice make a new array; sort orders the   *)
(* array it is called on, in place.  No statement of the engine or the     *)
(* calculator assigns to a field of a record or to an element of todos, so *)
(* the array methods are the only way to the caller's array.               *)
(***************************************************************************)
\* Most calls made on one array
MaxCalls == 2

MaxFrameTodos == 3

Argument(todos) == [arrays |-> <<todos>>, ref |-> 1]

\* Array.prototype.filter: the kept elements in a new array
ArrayFilterSameArray(m, kept) ==
    [arrays |-> [m.arrays EXCEPT ![m.ref] = kept], ref |-> m.ref]

ArrayFilter(m, kept) ==
    [arrays |-> Append(m.arrays, kept), ref |-> Len(m.arrays) + 1]

\* Array.prototype.sort with (a, b) => new Date(b.createTime) - new
\* Date(a.createTime): latest createTime first, equal ones in their order
RECURSIVE SortByCreateTimeDescending(_)
SortByCreateTimeDescending(s) ==
    IF Len(s) <= 1 THEN s
    ELSE LET first == CHOOSE i \in 1..Len(s) :
                         /\ \A j \in 1..Len(s) : AtOrBefore(s[j].createTime, s[i].createTime)
                         /\ \A j \in 1..(i - 1) : s[j].createTime # s[i].createTime
         IN  <<s[first]>> \o SortByCreateTimeDescending(
                 SubSeq(s, 1, first - 1) \o SubSeq(s, first + 1, Len(s)))

\* Array.prototype.sort: the array it is called on, reordered
ArraySort(m, sorted) == [arrays |-> [m.arrays EXCEPT ![m.ref] = sorted], ref |-> m.ref]

\* Array.prototype.slice(0, n): a new array
ArraySlice(m, n) ==
    [arrays |-> Append(m.arrays, SubSeq(m.arrays[m.ref], 1, Min(n, Len(m.arrays[m.ref])))),
     ref |-> Len(m.arrays) + 1]

\* The arrays after calculateStreaks(todos): todos.filter(...).sort(...)
calculateStreaksArrays(m) ==
    LET IsCompletedTask(todo) == todo.completed /\ todo.hasUpdateTime
        filtered == ArrayFilter(m, SelectSeq(m.arrays[m.ref], IsCompletedTask))
    IN  ArraySort(filtered, SortByUpdateTimeDescending(filtered.arrays[filtered.ref]))

\* The arrays after getRecentActivity(todos): two chains
\* todos.filter(...).sort(...).slice(0, 5), each starting from todos
getRecentActivityArrays(m, now) ==
    LET past24Hours == AddMs(now, 0 - MsPerDay)
        IsRecentCreated(todo) == AtOrBefore(past24Hours, todo.createTime)
        IsRecentCompleted(todo) ==
            todo.completed /\ todo.hasUpdateTime /\ AtOrBefore(past24Hours, todo.updateTime)
        created == ArrayFilter(m, SelectSeq(m.arrays[m.ref], IsRecentCreated))
        createdSorted == ArraySort(created, SortByCreateTimeDescending(created.arrays[created.ref]))
        recentCreated == ArraySlice(createdSorted, 5)
        todos == [arrays |-> recentCreated.arrays, ref |-> m.ref]
        completed == ArrayFilter(todos, SelectSeq(todos.arrays[todos.ref], IsRecentCompleted))
        completedSorted ==
            ArraySort(completed, SortByUpdateTimeDescending(completed.arrays[completed.ref]))
    IN  ArraySlice(completedSorted, 5)

\* The arrays after calculateCompletionRate(todos, timeRange): filters only
calculateCompletionRateArrays(m, timeRange) ==
    LET InTimeRange(todo) == InRange(todo, timeRange)
        IsCompleted(todo) == todo.completed
        filteredTodos == IF timeRange = NoRange THEN m
                         ELSE ArrayFilter(m, SelectSeq(m.arrays[m.ref], InTimeRange))
    IN  ArrayFilter(filteredTodos, SelectSeq(filteredTodos.arrays[filteredTodos.ref], IsCompleted))

\* Records whose order by createTime and by updateTime is not their order
\* in the array
FramePool ==
    { Todo(GeneratedId, <<"a">>, <<>>, TRUE, T(BaseDay - 1, MsPerDay \div 2), TRUE, T(BaseDay, 5)),
      Todo(GeneratedId2, <<"b">>, <<>>, TRUE, T(BaseDay, 0), TRUE, T(BaseDay, 1)),
      Todo(TempId, <<"c">>, <<>>, TRUE, T(BaseDay - 3, 0), TRUE, T(BaseDay, MsPerDay \div 4)),
      Todo(TempId, <<"d">>, <<>>, FALSE, T(BaseDay, 7), FALSE, T(0, 0)) }

FrameNow == T(BaseDay, MsPerDay \div 2)

FrameInputs ==
    [op : {"none"}, todos : SeqsUpTo(FramePool, MaxFrameTodos), now : {FrameNow},
     arrays : {<<>>}, calls : {0}]

\* A call with the caller's array; what the caller's array holds afterwards
\* is the first of the arrays the call leaves.
FrameCall(op, after) ==
    /\ calc.calls < MaxCalls
    /\ calc' = [calc EXCEPT !.op = op, !.todos = after.arrays[1],
                            !.arrays = after.arrays, !.calls = @ + 1]
    /\ UNCHANGED engineVars

\* generateAnalysisReport -> calculatePersonalizedInsights -> calculateStreaks
FrameStreaks == FrameCall("calculateStreaks", calculateStreaksArrays(Argument(calc.todos)))

\* getRealTimeStats -> getRecentActivity
FrameRecentActivity ==
    FrameCall("getRecentActivity", getRecentActivityArrays(Argument(calc.todos), calc.now))

\* getPeriodAnalysis and the other calculator functions: filters
FrameCompletionRate ==
    \E timeRange \in {NoRange, Range(T(BaseDay, 0), T(BaseDay, MsPerDay - 1))} :
        FrameCall("calculateCompletionRate",
                  calculateCompletionRateArrays(Argument(calc.todos), timeRange))

InitFrame == EngineInit /\ calc \in FrameInputs

NextFrame == FrameStreaks \/ FrameRecentActivity \/ FrameCompletionRate

SpecFrame == InitFrame /\ [][NextFrame]_vars

\* C21: no call changes the array the caller passed: after any sequence of
\* calls it holds the same records, in the same order, with the same field
\* values.
C21_InputNotMutated == [][calc'.todos = calc.todos]_vars

\* calculateStreaks and getRecentActivity have sorted an array of three
\* records whose order is not the sorted one
C21_Witness ==
    /\ calc.calls = MaxCalls
    /\ calc.op \in {"calculateStreaks", "getRecentActivity"}
    /\ Len(calc.todos) = MaxFrameTodos
    /\ \E j \in 2..Len(calc.arrays) :
          /\ Len(calc.arrays[j]) >= 2
          /\ calc.arrays[j] # SubSeq(calc.todos, 1, Len(calc.arrays[j]))
          /\ calc.arrays[j] = SortByUpdateTimeDescending(calc.arrays[j])

(***************************************************************************)
(* Optimal work periods (specification SpecWork)                           *)
(*                                                                         *)
(* The score is computed on rationals: (completed / total * 0.7 +          *)
(* min(total / 10, 1) * 0.3) * 100 is (70 * completed + 3 * min(total, 10) *)
(* * total) / total, and Math.round takes the nearest integer, a half      *)
(* going up.  Where this value is exactly a half (3 of 4: 64.5) the sum of *)
(* the program's doubles can lie just under it and round down; the two     *)
(* results are the two nearest integers.                                   *)
(***************************************************************************)
MaxWorkTodos == 3

MaxBucket == 12

\* Date.prototype.getDay: 0 is Sunday; day 0 of the model is a Monday
getDay(t) == (t.day + 1) % 7

isWeekday(date) == getDay(date) >= 1 /\ getDay(date) <= 5

getTimeSlot(date) ==
    LET hour == getHours(date)
    IN  IF hour >= 6 /\ hour < 12 THEN "morning"
        ELSE IF hour >= 12 /\ hour < 18 THEN "afternoon"
        ELSE IF hour >= 18 /\ hour < 22 THEN "evening"
        ELSE "night"

\* The keys of timeSlotStats and of weekdayStats, in insertion order
TimeSlots == <<"morning", "afternoon", "evening", "night">>

DayTypes == <<"weekday", "weekend">>

calculateProductivityScore(stats) ==
    IF stats.total = 0 THEN 0
    ELSE (2 * (70 * stats.completed + 3 * Min(stats.total, 10) * stats.total) + stats.total)
            \div (2 * stats.total)

\* reduce((best, current) => current.productivity >= best.productivity ? ...)
RECURSIVE BestOfLatest(_, _, _)
BestOfLatest(analysis, best, j) ==
    IF j > Len(analysis) THEN best
    ELSE BestOfLatest(analysis,
                      IF analysis[j].productivity >= best.productivity THEN analysis[j] ELSE best,
                      j + 1)

\* reduce((best, current) => current.productivity > best.productivity ?
\* current : best) from the element at j on, best being the accumulator
RECURSIVE BestOf(_, _, _)
BestOf(analysis, best, j) ==
    IF j > Len(analysis) THEN best
    ELSE BestOf(analysis,
                IF analysis[j].productivity > best.productivity THEN analysis[j] ELSE best,
                j + 1)

calculateOptimalWorkPeriods(todos) ==
    LET SlotStats(slot) ==
            LET InSlot(todo) == getTimeSlot(todo.createTime) = slot
                InSlotCompleted(todo) == InSlot(todo) /\ todo.completed
            IN  [total |-> Len(SelectSeq(todos, InSlot)),
                 completed |-> Len(SelectSeq(todos, InSlotCompleted))]
        TypeStats(type) ==
            LET OfType(todo) == (IF isWeekday(todo.createTime) THEN "weekday" ELSE "weekend") = type
                OfTypeCompleted(todo) == OfType(todo) /\ todo.completed
            IN  [total |-> Len(SelectSeq(todos, OfType)),
                 completed |-> Len(SelectSeq(todos, OfTypeCompleted))]
        timeSlotAnalysis ==
            [j \in 1..Len(TimeSlots) |->
                [timeSlot |-> TimeSlots[j],
                 total |-> SlotStats(TimeSlots[j]).total,
                 completed |-> SlotStats(TimeSlots[j]).completed,
                 completionRate |-> IF SlotStats(TimeSlots[j]).total > 0
                                    THEN RoundedRatio(SlotStats(TimeSlots[j]).completed,
                                                      SlotStats(TimeSlots[j]).total, 100).v
                                    ELSE 0,
                 productivity |-> calculateProductivityScore(SlotStats(TimeSlots[j]))]]
        dayTypeAnalysis ==
            [j \in 1..Len(DayTypes) |->
                [dayType |-> DayTypes[j],
                 total |-> TypeStats(DayTypes[j]).total,
                 completed |-> TypeStats(DayTypes[j]).completed,
                 completionRate |-> IF TypeStats(DayTypes[j]).total > 0
                                    THEN RoundedRatio(TypeStats(DayTypes[j]).completed,
                                                      TypeStats(DayTypes[j]).total, 100).v
                                    ELSE 0,
                 productivity |-> calculateProductivityScore(TypeStats(DayTypes[j]))]]
    IN  [timeSlotAnalysis |-> timeSlotAnalysis,
         dayTypeAnalysis |-> dayTypeAnalysis,
         bestTimeSlot |-> BestOf(timeSlotAnalysis, timeSlotAnalysis[1], 2)]

\* Records created in each time slot, on a Friday (BaseDay), a Saturday and
\* a Sunday
WorkPool ==
    { Todo(TempId, <<"a">>, <<>>, TRUE, T(BaseDay, 6 * 3600000), FALSE, T(0, 0)),
      Todo(TempId, <<"a">>, <<>>, FALSE, T(BaseDay, 12 * 3600000 - 1), FALSE, T(0, 0)),
      Todo(TempId, <<"a">>, <<>>, TRUE, T(BaseDay + 1, 12 * 3600000), FALSE, T(0, 0)),
      Todo(TempId, <<"a">>, <<>>, TRUE, T(BaseDay + 2, 18 * 3600000), FALSE, T(0, 0)),
      Todo(TempId, <<"a">>, <<>>, FALSE, T(BaseDay + 2, 22 * 3600000), FALSE, T(0, 0)),
      Todo(TempId, <<"a">>, <<>>, TRUE, T(BaseDay + 3, 6 * 3600000 - 1), FALSE, T(0, 0)) }

WorkInputs ==
    [op : {"none"}, kind : {"todos"}, todos : SeqsUpTo(WorkPool, MaxWorkTodos),
     stats : {[total |-> 0, completed |-> 0]}, result : {EmptyMap}]
    \cup
    [op : {"none"}, kind : {"stats"}, todos : {<<>>},
     stats : {[total |-> q[1], completed |-> q[2]] :
                 q \in {r \in (0..MaxBucket) \X (0..MaxBucket) : r[2] <= r[1]}},
     result : {EmptyMap}]

OptimalWorkPeriods ==
    /\ calc.op = "none" /\ calc.kind = "todos"
    /\ Apply("optimalWorkPeriods", calculateOptimalWorkPeriods(calc.todos))
    /\ UNCHANGED engineVars

ProductivityScore ==
    /\ calc.op = "none" /\ calc.kind = "stats"
    /\ Apply("productivityScore", calculateProductivityScore(calc.stats))
    /\ UNCHANGED engineVars

InitWork == EngineInit /\ calc \in WorkInputs

NextWork == OptimalWorkPeriods \/ ProductivityScore

SpecWork == InitWork /\ [][NextWork]_vars

\* The value (completed / total * 0.7 + min(total / 10, 1) * 0.3) * 100 as
\* a ratio
ScoreRatio(stats) ==
    [num |-> 70 * stats.completed + 3 * Min(stats.total, 10) * stats.total, den |-> stats.total]

\* p is a nearest integer to the ratio, and 0 for an empty bucket
IsScoreOf(p, stats) ==
    IF stats.total = 0 THEN p = 0
    ELSE LET r == ScoreRatio(stats)
         IN  /\ 2 * (p * r.den - r.num) <= r.den
             /\ 2 * (r.num - p * r.den) <= r.den

SlotIndex(slot) == CHOOSE j \in 1..Len(TimeSlots) : TimeSlots[j] = slot

MaxStyleTodos == 3

\* avgCompletionTime and quickRatio are kept as sums over the completed
\* records: the mean is sumDays / n and the ratio is quickTasks / n.
\* avgCompletionDays is in tenths.
analyzeWorkingStyle(todos) ==
    LET IsCompletedTask(todo) == todo.completed /\ todo.hasUpdateTime
        completedTodos == SelectSeq(todos, IsCompletedTask)
        n == Len(completedTodos)
        sumDays == SumOver([j \in 1..n |->
                      getDaysDifference(completedTodos[j].createTime,
                                        completedTodos[j].updateTime)], 1, n)
        IsQuick(todo) == getDaysDifference(todo.createTime, todo.updateTime) < 1
        quickTasks == Len(SelectSeq(completedTodos, IsQuick))
    IN  IF n = 0 THEN [style |-> "unknown", avgCompletionDays |-> 0, quickTaskRatio |-> 0]
        ELSE [style |-> IF sumDays < n /\ quickTasks * 10 > n * 7 THEN "sprint"
                        ELSE IF sumDays > 3 * n THEN "marathon"
                        ELSE IF quickTasks * 2 > n THEN "mixed_fast"
                        ELSE "balanced",
              avgCompletionDays |-> RoundedRatio(sumDays, n, 10).v,
              quickTaskRatio |-> RoundedRatio(quickTasks, n, 100).v]

StyleCreated == T(BaseDay, MsPerDay \div 4)

\* Records completed at once, 2 hours, exactly a day, a day and a
\* millisecond, and 4 days after they were created, and one not completed
StylePool ==
    {Todo(TempId, <<"a">>, <<>>, TRUE, StyleCreated, TRUE, AddMs(StyleCreated, latency)) :
        latency \in {0, 2 * 3600000, MsPerDay, MsPerDay + 1}}
    \cup {Todo(TempId, <<"a">>, <<>>, TRUE, StyleCreated, TRUE, T(BaseDay + 4, MsPerDay \div 4)),
          Todo(TempId, <<"a">>, <<>>, FALSE, StyleCreated, FALSE, T(0, 0))}

StyleInputs ==
    [op : {"none"}, todos : SeqsUpTo(StylePool, MaxStyleTodos), result : {EmptyMap}]

WorkingStyle ==
    /\ calc.op = "none"
    /\ Apply("workingStyle", analyzeWorkingStyle(calc.todos))
    /\ UNCHANGED engineVars

InitStyle == EngineInit /\ calc \in StyleInputs

NextStyle == WorkingStyle

SpecStyle == InitStyle /\ [][NextStyle]_vars

\* The time from creation to completion, in milliseconds
LatencyMs(todo) ==
    (todo.updateTime.day - todo.createTime.day) * MsPerDay
        + (todo.updateTime.ms - todo.createTime.ms)

\* C23: over the completed records that have an updateTime, with mean the
\* mean latency in days and quick-ratio the fraction completed within a day
\* of creation (2 hours after creation is quick), the style is sprint iff
\* mean < 1 and quick-ratio > 0.7, else marathon iff mean > 3, else
\* mixed_fast iff quick-ratio > 0.5, else balanced.
C23_WorkingStyle ==
    calc.op = "workingStyle" =>
        LET done == {i \in 1..Len(calc.todos) :
                        calc.todos[i].completed /\ calc.todos[i].hasUpdateTime}
            n == Cardinality(done)
            latencies == [i \in 1..Len(calc.todos) |->
                             IF i \in done THEN LatencyMs(calc.todos[i]) ELSE 0]
            sumMs == SumOver(latencies, 1, Len(calc.todos))
            quick == Cardinality({i \in done : LatencyMs(calc.todos[i]) <= MsPerDay})
        IN  n > 0 =>
               calc.result.style =
                  IF sumMs < n * MsPerDay /\ quick * 10 > n * 7 THEN "sprint"
                  ELSE IF sumMs > 3 * n * MsPerDay THEN "marathon"
                  ELSE IF quick * 2 > n THEN "mixed_fast"
                  ELSE "balanced"

(***************************************************************************)
(* Period analysis: comparison window and daily breakdown (specification   *)
(* SpecPeriod)                                                             *)
(***************************************************************************)
MaxPeriodTodos == 2

\* previousStart and previousEnd of generatePeriodComparisons
PreviousWindow(startDate, endDate) ==
    LET periodDays == getDaysDifference(startDate, endDate) + 1
    IN  [start |-> setDate(startDate, getDate(startDate) - periodDays),
         end |-> setDate(endDate, getDate(endDate) - periodDays)]

calculateTrend(current, previous) ==
    LET completionChange == current.completionRate - previous.completionRate
        volumeChange == current.total - previous.total
    IN  IF Abs(completionChange) <= 5 /\ Abs(volumeChange) <= 1 THEN "stable"
        ELSE IF completionChange > 5 \/ (completionChange >= 0 /\ volumeChange > 0)
        THEN "improving"
        ELSE IF completionChange < 0 - 5 \/ (completionChange <= 0 /\ volumeChange < 0)
        THEN "declining"
        ELSE "mixed"

generatePeriodComparisons(allTodos, periodTodos, startDate, endDate) ==
    LET previous == PreviousWindow(startDate, endDate)
        InPrevious(todo) == InRange(todo, Range(previous.start, previous.end))
        previousTodos == SelectSeq(allTodos, InPrevious)
        currentStats == calculateCompletionRate(periodTodos, NoRange)
        previousStats == calculateCompletionRate(previousTodos, NoRange)
    IN  [previous |-> [period |-> [start |-> formatDate(previous.start, "YYYY-MM-DD"),
                                   end |-> formatDate(previous.end, "YYYY-MM-DD")],
                       stats |-> previousStats],
         changes |-> [totalTasks |-> currentStats.total - previousStats.total,
                      completedTasks |-> currentStats.completed - previousStats.completed,
                      completionRate |-> currentStats.completionRate
                                            - previousStats.completionRate,
                      trend |-> calculateTrend(currentStats, previousStats)]]

\* TimeUtils.getDateRange(startDate, endDate, 'day'): current from start on,
\* a day further each time, while current <= end
RECURSIVE getDateRange(_, _)
getDateRange(current, endDate) ==
    IF Before(endDate, current) THEN <<>>
    ELSE <<current>> \o getDateRange(setDate(current, getDate(current) + 1), endDate)

\* One entry of dailyData; todoDetails keeps id, title, completed, createTime
DailyEntry(todos, date) ==
    LET dayStart == getStartOfDay(date)
        dayEnd == getEndOfDay(date)
        CreatedOnDay(todo) == InRange(todo, Range(dayStart, dayEnd))
        CompletedOnDay(todo) ==
            /\ todo.completed /\ todo.hasUpdateTime
            /\ AtOrBefore(dayStart, todo.updateTime) /\ AtOrBefore(todo.updateTime, dayEnd)
        dayTodos == SelectSeq(todos, CreatedOnDay)
    IN  [date |-> formatDate(date, "YYYY-MM-DD"),
         isWeekend |-> ~isWeekday(date),
         created |-> Len(dayTodos),
         completed |-> Len(SelectSeq(todos, CompletedOnDay)),
         todoDetails |-> [j \in 1..Len(dayTodos) |->
                             [id |-> dayTodos[j].id, title |-> dayTodos[j].title,
                              completed |-> dayTodos[j].completed,
                              createTime |-> dayTodos[j].createTime]]]

getDailyBreakdown(todos, startDate, endDate) ==
    LET dateRange == getDateRange(startDate, endDate)
    IN  [j \in 1..Len(dateRange) |-> DailyEntry(todos, dateRange[j])]

\* The analysis of getPeriodAnalysis with its dailyBreakdown and comparisons
PeriodAnalysisParts(todos, startDate, endDate) ==
    LET InWindow(todo) == InRange(todo, Range(startDate, endDate))
        filteredTodos == SelectSeq(todos, InWindow)
    IN  [overview |-> calculateCompletionRate(filteredTodos, NoRange),
         dailyBreakdown |-> getDailyBreakdown(filteredTodos, startDate, endDate),
         comparisons |-> generatePeriodComparisons(todos, filteredTodos, startDate, endDate)]

\* Windows: a day, a week, a day from midnight to midnight, and a window
\* from 18:00 to 06:00 two days later
PeriodWindows ==
    { Range(T(BaseDay, 0), T(BaseDay, MsPerDay - 1)),
      Range(T(BaseDay, 0), T(BaseDay + 6, MsPerDay - 1)),
      Range(T(BaseDay, 0), T(BaseDay + 1, 0)),
      Range(T(BaseDay, 18 * 3600000), T(BaseDay + 2, 6 * 3600000)) }

PeriodPool ==
    { Todo(TempId, <<"a">>, <<>>, FALSE, T(BaseDay - 1, MsPerDay \div 2), FALSE, T(0, 0)),
      Todo(TempId, <<"b">>, <<>>, TRUE, T(BaseDay - 2, MsPerDay \div 2), TRUE, T(BaseDay, 1)),
      Todo(TempId, <<"c">>, <<>>, FALSE, T(BaseDay, 3 * 3600000), FALSE, T(0, 0)),
      Todo(TempId, <<"d">>, <<>>, TRUE, T(BaseDay, 20 * 3600000), TRUE, T(BaseDay + 1, 0)),
      Todo(TempId, <<"e">>, <<>>, FALSE, T(BaseDay + 2, 3 * 3600000), FALSE, T(0, 0)) }

PeriodCalcInputs ==
    [op : {"none"}, todos : SeqsUpTo(PeriodPool, MaxPeriodTodos), window : PeriodWindows,
     result : {EmptyMap}]

PeriodComparisons ==
    /\ calc.op = "none"
    /\ Apply("generatePeriodComparisons",
             PeriodAnalysisParts(calc.todos, calc.window.start, calc.window.end).comparisons)
    /\ UNCHANGED engineVars

DailyBreakdown ==
    /\ calc.op = "none"
    /\ Apply("getDailyBreakdown",
             [overview |-> PeriodAnalysisParts(calc.todos, calc.window.start,
                                               calc.window.end).overview,
              dailyBreakdown |-> PeriodAnalysisParts(calc.todos, calc.window.start,
                                                     calc.window.end).dailyBreakdown])
    /\ UNCHANGED engineVars

InitPeriod == EngineInit /\ calc \in PeriodCalcInputs

NextPeriod == PeriodComparisons \/ DailyBreakdown

SpecPeriod == InitPeriod /\ [][NextPeriod]_vars

\* The milliseconds from a to b
ElapsedMs(a, b) == (b.day - a.day) * MsPerDay + (b.ms - a.ms)

\* C24: the comparison window has the length of [start, end] and ends at
\* the last instant before start, so that every record created in the day
\* right before start is counted in it.
C24_PreviousWindowAdjacent ==
    calc.op = "generatePeriodComparisons" =>
        LET previous == PreviousWindow(calc.window.start, calc.window.end)
            dayBefore == {i \in 1..Len(calc.todos) :
                             /\ AtOrBefore(AddMs(calc.window.start, 0 - MsPerDay),
                                           calc.todos[i].createTime)
                             /\ Before(calc.todos[i].createTime, calc.window.start)}
        IN  /\ ElapsedMs(previous.start, previous.end)
                  = ElapsedMs(calc.window.start, calc.window.end)
            /\ AddMs(previous.end, 1) = calc.window.start
            /\ calc.result.previous.stats.total >= Cardinality(dayBefore)

\* C29: for every window with start <= end the created counts of the day
\* entries sum to overview.total: every record created in the window is in
\* the todoDetails of exactly one day entry.
C29_DailyBreakdownCoversWindow ==
    calc.op = "getDailyBreakdown" =>
        LET days == calc.result.dailyBreakdown
            InWindow(i) == InRange(calc.todos[i], calc.window)
            Listed(i, j) == \E k \in 1..Len(days[j].todoDetails) :
                               /\ days[j].todoDetails[k].title = calc.todos[i].title
                               /\ days[j].todoDetails[k].createTime = calc.todos[i].createTime
        IN  /\ SumOver([j \in 1..Len(days) |-> days[j].created], 1, Len(days))
                  = calc.result.overview.total
            /\ \A i \in 1..Len(calc.todos) :
                  InWindow(i) => Cardinality({j \in 1..Len(days) : Listed(i, j)}) = 1

(***************************************************************************)
(* Further properties of the cache (specification Spec)                    *)
(***************************************************************************)
\* C25: getPeriodAnalysis never returns an analysis that was computed for
\* another window (another end, another start) or another record count,
\* whatever the instants of the calls, and a key of getPeriodAnalysis is
\* never a key of generateReport.
C25_PeriodKeyDistinguishesWindow ==
    /\ (last.op = "getPeriodAnalysis" /\ ~last.isNull) =>
          /\ Windows[last.result.src[3]] = Windows[last.wi]
          /\ Len(Collections[last.result.src[1]]) = Len(Collections[last.ri])
    /\ \A k \in DOMAIN cache :
          (k.prefix = "periodAnalysis") = (cache[k].src[3] # 0)

\* C26: the value map and the expiry map of the cache always have the same
\* keys: every stored value has an expiry and every expiry a stored value.
C26_MapsHaveSameKeys == DOMAIN cache = DOMAIN cacheExpiry

\* Two results are stored, by a report call and a period call, and the
\* clock has advanced past the expiry of one of them
C26_Witness ==
    /\ Cardinality(DOMAIN cache) = 2
    /\ \E k \in DOMAIN cache : cache[k].src[3] # 0
    /\ \E k \in DOMAIN cache : cache[k].src[3] = 0
    /\ \E k \in DOMAIN cacheExpiry : AtOrBefore(cacheExpiry[k], clock)

\* C27: the cache holds at most one entry per requested input: calls with
\* the same arguments, at any clock readings, leave at most one entry for
\* them, so the entries never outnumber the distinct inputs requested.
C27_OneEntryPerInput ==
    \A k1, k2 \in DOMAIN cache : cache[k1].src = cache[k2].src => k1 = k2

(***************************************************************************)
(* A growing backlog (specification SpecBacklog)                           *)
(***************************************************************************)
\* The pending records of AgePool that are delayed
DelayedPool == {todo \in AgePool : ~todo.completed /\ DelayDaysOver(todo, MetricsNow, 1)}

BacklogInputs ==
    [op : {"none"}, todos : SeqsUpTo(AgePool, MaxTodos), added : DelayedPool,
     now : {MetricsNow}, result : {EmptyMap}]

\* calculateProcrastinationMetrics of a collection and of the collection
\* with one more record pushed to it
BacklogGrows ==
    /\ calc.op = "none"
    /\ Apply("procrastinationMetrics",
             [before |-> calculateProcrastinationMetrics(calc.todos, calc.now),
              after |-> calculateProcrastinationMetrics(Append(calc.todos, calc.added),
                                                        calc.now)])
    /\ UNCHANGED engineVars

InitBacklog == EngineInit /\ calc \in BacklogInputs

NextBacklog == BacklogGrows

SpecBacklog == InitBacklog /\ [][NextBacklog]_vars

\* C28: adding one more pending record that is delayed (older than a day)
\* never gives a lower procrastinationLevel, in the order low < moderate <
\* high < very_high.
C28_WorseBacklogNotLower ==
    calc.op = "procrastinationMetrics" =>
        LevelRank(calc.result.before.procrastinationLevel)
            <= LevelRank(calc.result.after.procrastinationLevel)

(***************************************************************************)
(* The two percentages of calculateCompletionRate (specification SpecRate) *)
(***************************************************************************)
MaxRateTodos == 9

\* total records of which the first `completed` are completed, created a
\* day apart
RateCollection(total, completed) ==
    [i \in 1..total |->
        Todo(TempId, <<"a">>, <<>>, i <= completed, T(BaseDay + i, 0), FALSE, T(0, 0))]

RateInputs ==
    [op : {"none"},
     todos : {RateCollection(q[1], q[2]) :
                 q \in {r \in (0..MaxRateTodos) \X (0..MaxRateTodos) : r[2] <= r[1]}},
     now : {T(0, 0)},
     range : {NoRange, Range(T(BaseDay + 1, 0), T(BaseDay + MaxRateTodos - 1, 0))},
     count : {0}, result : {EmptyMap}]

InitRate == EngineInit /\ calc \in RateInputs

NextRate == CompletionRate

SpecRate == InitRate /\ [][NextRate]_vars

\* C30: whenever total > 0, completionRate + pendingRate = 100 and each of
\* the two lies within 0..100.
C30_RatesSumTo100 ==
    (calc.op = "completionRate" /\ calc.result.total > 0) =>
        /\ calc.result.completionRate + calc.result.pendingRate = 100
        /\ calc.result.completionRate \in 0..100
        /\ calc.result.pendingRate \in 0..100

====
